---- MODULE Spec2Model ----
(***************************************************************************)
(* RAG query orchestration (RAGOrchestratorService) as a state machine.    *)
(*                                                                         *)
(* One processQuery run is in progress at a time; when it has settled the  *)
(* next call may start.  Every await of the TypeScript source is a         *)
(* suspension point: the collaborator it waits for settles in a separate   *)
(* action, and the caller's abort, the timeout timer and dispose() may     *)
(* interleave anywhere.                                                    *)
(*                                                                         *)
(* Strings are sequences of tokens (" " is whitespace), so that trim(),    *)
(* includes() and the Set-based deduplication are computed, not assumed.   *)
(***************************************************************************)
EXTENDS Integers, Sequences, FiniteSets, TLC

VARIABLES
    isDisposed,        \* RAGOrchestratorService.isDisposed
    pc,                \* where the current run is suspended
    input,             \* the arguments of the current processQuery call
    callerAborted,     \* abortSignal.aborted of the caller-supplied signal
    timeoutElapsed,    \* AbortSignal.timeout(timeoutMs) has fired
    variants,          \* performVectorSearch: one record per search promise
    inflightSearch,    \* variants whose search call lost its race and still runs
    searchResults,     \* the merged (unique) results
    rerankSt,          \* the rerankResults calls of the run, in call order
    compressSt,        \* the compressContext call of the run
    rerankedResults,
    compressedContext,
    relevantDocuments,
    sources,
    calls,             \* collaborator calls of the run, in issue order
    trackerCalls,      \* metadata tracker methods called in the run, in order
    outcome,           \* how processQuery settled
    abortSeen,         \* a call of the run rejected with the caller's abort
    genPc,             \* TextGenerationService: where the generation call stands
    genArgs,           \* the arguments of the current generation call
    genOutcome,        \* how the generation entry point settled
    streamState,       \* the streamText stream of the call
    streamed,          \* the text the stream has produced so far
    storageCalls,      \* chatStorageService.addMessage calls, in order
    genTrackerCalls,   \* tracker methods called while persisting, in order
    finishResult,      \* how the onFinish callback ended
    logged             \* console.error calls of the generation call

\* the orchestrator's state
orchVars == <<isDisposed, pc, input, callerAborted, timeoutElapsed, variants,
              inflightSearch, searchResults, rerankSt, compressSt, rerankedResults,
              compressedContext, relevantDocuments, sources, calls, trackerCalls,
              outcome, abortSeen>>

\* the text generation service's state
genVars == <<genPc, genArgs, genOutcome, streamState, streamed, storageCalls,
             genTrackerCalls, finishResult, logged>>

vars == <<orchVars, genVars>>

(***************************************************************************)
(* Bounds of the model.                                                    *)
(***************************************************************************)
\* rewritten queries a run of the pipeline is given
MaxRunRewritten == 1
\* the highest page number a run asks for, and how many pages it asks for
MaxRunPage == 2
MaxRunPageCount == 2
\* rewritten queries given to query-variant construction on its own
MaxRewritten == 21

(***************************************************************************)
(* Program constants.                                                      *)
(***************************************************************************)
MAX_STANDARD_QUERIES == 15
MAX_EXPANDED_QUERIES == 20
MAX_FAST_QUERIES == 3

(***************************************************************************)
(* Sequence helpers.                                                       *)
(***************************************************************************)
Min(a, b) == IF a < b THEN a ELSE b
Max(a, b) == IF a > b THEN a ELSE b

\* Array.prototype.slice(0, n)
Slice0(s, n) == SubSeq(s, 1, Min(Len(s), Max(n, 0)))

\* Array.prototype.map
RECURSIVE MapSeq(_, _)
MapSeq(F(_), s) == IF s = <<>> THEN <<>> ELSE <<F(Head(s))>> \o MapSeq(F, Tail(s))

RECURSIVE Flatten(_)
Flatten(ss) == IF ss = <<>> THEN <<>> ELSE Head(ss) \o Flatten(Tail(ss))

Contains(s, x) == \E i \in 1..Len(s) : s[i] = x

(***************************************************************************)
(* Strings.                                                                *)
(***************************************************************************)
WS == " "
\* an `undefined` entry of rewrittenQueries
Undefined == <<"#undefined">>

RECURSIVE TrimStart(_)
TrimStart(s) == IF s # <<>> /\ Head(s) = WS THEN TrimStart(Tail(s)) ELSE s

RECURSIVE TrimEnd(_)
TrimEnd(s) ==
    IF s # <<>> /\ s[Len(s)] = WS THEN TrimEnd(SubSeq(s, 1, Len(s) - 1)) ELSE s

\* String.prototype.trim
Trim(s) == TrimEnd(TrimStart(s))

\* Array.from(new Set(xs)): insertion order, first occurrence kept
RECURSIVE SetOrder(_, _)
SetOrder(xs, acc) ==
    IF xs = <<>> THEN acc
    ELSE SetOrder(Tail(xs), IF Contains(acc, Head(xs)) THEN acc
                            ELSE Append(acc, Head(xs)))

(***************************************************************************)
(* Query-variant construction.                                             *)
(***************************************************************************)
getMaxQueriesForStrategy(strategy) ==
    CASE strategy = "FastVectorSearch" -> MAX_FAST_QUERIES
      [] strategy = "StandardVectorSearch" -> MAX_STANDARD_QUERIES
      [] strategy = "ExpandedSearch" -> MAX_EXPANDED_QUERIES
      [] OTHER -> MAX_STANDARD_QUERIES

\* the rewritten queries pushed after the original query
RewrittenSlots(qe, maxQueries) ==
    IF Len(qe.rewrittenQueries) > 0
    THEN SelectSeq(Slice0(qe.rewrittenQueries, maxQueries - 1),
                   LAMBDA q : q # Undefined)
    ELSE <<>>

\* a hypothetical answer pushed in every strategy
HydeSlot_anyStrategy(qe, strategy) ==
    IF qe.hydeAnswer # <<>> /\ qe.requiresHyde
    THEN <<qe.hydeAnswer>>
    ELSE <<>>

\* the hypothetical answer pushed last
HydeSlot(qe, strategy) ==
    IF strategy = "ExpandedSearch" /\ qe.hydeAnswer # <<>> /\ qe.requiresHyde
    THEN <<qe.hydeAnswer>>
    ELSE <<>>

\* deduplication applied before trim() instead of after it
buildQueriesForStrategy_dedupeFirst(query, qe, strategy) ==
    LET maxQueries == getMaxQueriesForStrategy(strategy)
        queries == <<query>> \o RewrittenSlots(qe, maxQueries) \o HydeSlot(qe, strategy)
    IN  SelectSeq(MapSeq(Trim, SetOrder(queries, <<>>)), LAMBDA q : q # <<>>)

buildQueriesForStrategy(query, qe, strategy) ==
    LET maxQueries == getMaxQueriesForStrategy(strategy)
        queries == <<query>> \o RewrittenSlots(qe, maxQueries) \o HydeSlot(qe, strategy)
    IN  SetOrder(SelectSeq(MapSeq(Trim, queries), LAMBDA q : q # <<>>), <<>>)

(***************************************************************************)
(* Page validation.                                                        *)
(***************************************************************************)
\* doc.numPages || 0 : a document without page count has numPages 0 here
RECURSIVE MaxOf(_)
MaxOf(ns) == IF Len(ns) = 1 THEN ns[1] ELSE Max(Head(ns), MaxOf(Tail(ns)))

NumPagesOf(doc) == doc.numPages
\* doc.documentName || 'Unknown Document' : a missing name is <<>> here
NameOf(doc) == IF doc.documentName = <<>> THEN <<"Unknown Document">>
               ELSE doc.documentName

NoMessage == [template |-> "none", invalidPageList |-> <<>>,
              documentNames |-> <<>>, maxPagesInDocuments |-> 0]

\* a message that lists only the first page out of range
RangeMessage_firstPageOnly(invalidPages, docs, maxPages) ==
    [template |-> "Page doesn't exist",
     invalidPageList |-> <<Head(invalidPages)>>,
     documentNames |-> MapSeq(NameOf, docs),
     maxPagesInDocuments |-> maxPages]

\* the template literal of the out-of-range message, by its interpolated parts
RangeMessage(invalidPages, docs, maxPages) ==
    [template |-> IF Len(invalidPages) = 1 THEN "Page doesn't exist"
                  ELSE "Pages don't exist",
     invalidPageList |-> invalidPages,
     documentNames |-> MapSeq(NameOf, docs),
     maxPagesInDocuments |-> maxPages]

\* a validation that forgets the lower bound of a page number
validatePagesAgainstDocuments_upperOnly(requestedPages, docs) ==
    IF Len(requestedPages) = 0 THEN [isValid |-> TRUE, errorMessage |-> NoMessage]
    ELSE IF Len(docs) = 0
    THEN [isValid |-> FALSE,
          errorMessage |-> [NoMessage EXCEPT !.template =
                               "No documents available to validate pages against"]]
    ELSE LET maxPagesInDocuments == MaxOf(MapSeq(NumPagesOf, docs))
             invalidPages == SelectSeq(requestedPages,
                                LAMBDA p : p > maxPagesInDocuments)
         IN  IF Len(invalidPages) = 0
             THEN [isValid |-> TRUE, errorMessage |-> NoMessage]
             ELSE [isValid |-> FALSE,
                   errorMessage |-> RangeMessage(invalidPages, docs,
                                                 maxPagesInDocuments)]

\* a validation that only rejects pages below 1
validatePagesAgainstDocuments_lowerOnly(requestedPages, docs) ==
    IF Len(requestedPages) = 0 THEN [isValid |-> TRUE, errorMessage |-> NoMessage]
    ELSE IF Len(docs) = 0
    THEN [isValid |-> FALSE,
          errorMessage |-> [NoMessage EXCEPT !.template =
                               "No documents available to validate pages against"]]
    ELSE LET maxPagesInDocuments == MaxOf(MapSeq(NumPagesOf, docs))
             invalidPages == SelectSeq(requestedPages, LAMBDA p : p < 1)
         IN  IF maxPagesInDocuments = 0
             THEN [isValid |-> FALSE,
                   errorMessage |-> [NoMessage EXCEPT !.template =
                               "Documents have no page information available"]]
             ELSE IF Len(invalidPages) = 0
             THEN [isValid |-> TRUE, errorMessage |-> NoMessage]
             ELSE [isValid |-> FALSE,
                   errorMessage |-> RangeMessage(invalidPages, docs,
                                                 maxPagesInDocuments)]

validatePagesAgainstDocuments(requestedPages, docs) ==
    IF Len(requestedPages) = 0 THEN [isValid |-> TRUE, errorMessage |-> NoMessage]
    ELSE IF Len(docs) = 0
    THEN [isValid |-> FALSE,
          errorMessage |-> [NoMessage EXCEPT !.template =
                               "No documents available to validate pages against"]]
    ELSE LET maxPagesInDocuments == MaxOf(MapSeq(NumPagesOf, docs))
             invalidPages == SelectSeq(requestedPages,
                                LAMBDA p : p < 1 \/ p > maxPagesInDocuments)
         IN  IF maxPagesInDocuments = 0
             THEN [isValid |-> FALSE,
                   errorMessage |-> [NoMessage EXCEPT !.template =
                               "Documents have no page information available"]]
             ELSE IF Len(invalidPages) = 0
             THEN [isValid |-> TRUE, errorMessage |-> NoMessage]
             ELSE [isValid |-> FALSE,
                   errorMessage |-> RangeMessage(invalidPages, docs,
                                                 maxPagesInDocuments)]

(***************************************************************************)
(* Errors a collaborator may reject with.                                  *)
(***************************************************************************)
\* DOMException thrown for controller.abort()
AbortErr == [isError |-> TRUE, name |-> "AbortError",
             message |-> <<"This", "operation", "was", "aborted">>]
\* DOMException that AbortSignal.timeout() aborts with
TimeoutDomErr == [isError |-> TRUE, name |-> "TimeoutError",
                  message |-> <<"The", "operation", "was", "aborted", "due",
                                "to", "timeout">>]
\* a collaborator's own timeout
TimeoutPlainErr == [isError |-> TRUE, name |-> "TimeoutError",
                    message |-> <<"Request", "timed", "out">>]
GenericErr == [isError |-> TRUE, name |-> "Error",
               message |-> <<"upstream", "failure">>]
\* a thrown value that is not an Error instance
NonErrorThrow == [isError |-> FALSE, name |-> "", message |-> <<>>]
ServiceDisposedErr == [isError |-> TRUE, name |-> "RAGError",
                       message |-> <<"serviceDisposed">>]

\* errors that can reach the top-level handler
Errors == {AbortErr, TimeoutDomErr, TimeoutPlainErr, GenericErr, NonErrorThrow}
\* errors of calls whose catch block only logs them
SwallowedErrors == {AbortErr, GenericErr}

\* error.message.includes('aborted')
MessageIncludesAborted(e) == Contains(e.message, "aborted")

(***************************************************************************)
(* Inputs of a run.                                                        *)
(***************************************************************************)
DataroomId == "room1"

DocA == [documentId |-> "d1", documentName |-> <<"A.pdf">>, numPages |-> 1]
\* a document without display name and without page count
DocB == [documentId |-> "d2", documentName |-> <<>>, numPages |-> 0]

RunDocuments == {<<>>, <<DocB>>, <<DocB, DocA>>}
BaseDocuments == <<DocB, DocA>>

BaseQuery == <<"q">>
\* a query that trim() changes
PaddedQuery == <<WS, "q">>

Strategies == {"FastVectorSearch", "StandardVectorSearch", "ExpandedSearch",
               "PageQueryStrategy"}
\* a value outside the SearchStrategy union (the switch's default branch)
UnknownStrategy == "HybridSearch"
RunStrategies == Strategies \cup {UnknownStrategy}

NoExtraction == [present |-> FALSE, pageNumbers |-> <<>>, rewrittenQueries |-> <<>>,
                 hydeAnswer |-> <<>>, requiresHyde |-> FALSE]

SeqsUpTo(S, n) == UNION {[1..k -> S] : k \in 0..n}

\* page lists a run's query extraction may carry
RunPages == SeqsUpTo(0..MaxRunPage, MaxRunPageCount)
\* rewritten queries a run's query extraction may carry
RunRewritten == SeqsUpTo({<<"r">>, <<"q", WS>>}, MaxRunRewritten)

PageExtraction(pages) == [NoExtraction EXCEPT !.present = TRUE, !.pageNumbers = pages]
RewriteExtraction(rewritten, requiresHyde) ==
    [present |-> TRUE, pageNumbers |-> <<>>, rewrittenQueries |-> rewritten,
     hydeAnswer |-> <<"h">>, requiresHyde |-> requiresHyde]

RunInput(query, docs, strategy, qe, hasAbortSignal, hasTracker) ==
    [query |-> query, indexedDocuments |-> docs, strategy |-> strategy,
     queryExtraction |-> qe, hasAbortSignal |-> hasAbortSignal,
     hasTracker |-> hasTracker]

\* plain requests, with and without a caller signal
BaseInputs ==
    {RunInput(BaseQuery, BaseDocuments, s, NoExtraction, sig, TRUE) :
        s \in RunStrategies, sig \in BOOLEAN}
\* requests without metadata tracker
UntrackedInputs ==
    {RunInput(BaseQuery, BaseDocuments, s, NoExtraction, FALSE, FALSE) :
        s \in RunStrategies}
\* requests for explicit pages, against every document list
PageInputs ==
    {RunInput(BaseQuery, docs, s, PageExtraction(p), FALSE, TRUE) :
        docs \in RunDocuments, p \in RunPages \ {<<>>}, s \in RunStrategies}
    \cup {RunInput(BaseQuery, BaseDocuments, s, PageExtraction(<<>>), FALSE, TRUE) :
             s \in RunStrategies}
\* requests with rewritten queries and a hypothetical answer
RewriteInputs ==
    {RunInput(PaddedQuery, BaseDocuments, s, RewriteExtraction(r, TRUE), FALSE, TRUE) :
        r \in RunRewritten, s \in RunStrategies}
    \cup {RunInput(PaddedQuery, BaseDocuments, "ExpandedSearch",
                   RewriteExtraction(r, FALSE), FALSE, TRUE) : r \in RunRewritten}

\* a request with two query variants whose caller may abort
AbortInputs ==
    {RunInput(BaseQuery, BaseDocuments, "FastVectorSearch",
              RewriteExtraction(<< <<"r">> >>, FALSE), TRUE, TRUE)}

RunInputs ==
    BaseInputs \cup UntrackedInputs \cup PageInputs \cup RewriteInputs \cup AbortInputs

(***************************************************************************)
(* Search results.                                                         *)
(***************************************************************************)
K1a == [chunkId |-> "c1", documentId |-> "d1", content |-> <<"alpha">>,
        similarity |-> 70, metadata |-> [page |-> 1]]
\* the same chunk as another variant returns it, with no similarity score
K1b == [chunkId |-> "c1", documentId |-> "d1", content |-> <<"alpha'">>,
        similarity |-> 0, metadata |-> [page |-> 1]]
K2 == [chunkId |-> "c2", documentId |-> "d2", content |-> <<"beta">>,
       similarity |-> 50, metadata |-> [page |-> 2]]

\* what one search call may return
ResultLists == {<<>>, <<K1a>>, <<K1b, K2>>}

\* results.filter with a Set of seen chunkIds
RECURSIVE RemoveFrom(_, _)
RemoveFrom(results, seen) ==
    IF results = <<>> THEN <<>>
    ELSE IF Head(results).chunkId \in seen THEN RemoveFrom(Tail(results), seen)
    ELSE <<Head(results)>> \o RemoveFrom(Tail(results), seen \cup {Head(results).chunkId})

\* a deduplication that keeps the last occurrence of a chunkId
removeDuplicateResults_keepLast(results) ==
    LET Rev(xs) == [i \in 1..Len(xs) |-> xs[Len(xs) + 1 - i]]
    IN  Rev(RemoveFrom(Rev(results), {}))

removeDuplicateResults(results) == RemoveFrom(results, {})

ContentOf(r) == r.content

\* xs.join('\n\n')
RECURSIVE Join(_)
Join(xs) == IF xs = <<>> THEN <<>>
            ELSE IF Len(xs) = 1 THEN Head(xs)
            ELSE Head(xs) \o <<"\n\n">> \o Join(Tail(xs))

\* results.map(r => r.content).join('\n\n')
JoinContents(results) == Join(MapSeq(ContentOf, results))

Reverse(s) == [i \in 1..Len(s) |-> s[Len(s) + 1 - i]]

(***************************************************************************)
(* Metadata filter.                                                        *)
(***************************************************************************)
Digits == <<"0", "1", "2", "3", "4", "5", "6", "7", "8", "9">>

\* Number.prototype.toString of an integer
RECURSIVE numToString(_)
numToString(n) ==
    IF n < 0 THEN <<"-">> \o numToString(0 - n)
    ELSE IF n < 10 THEN <<Digits[n + 1]>>
    ELSE numToString(n \div 10) \o <<Digits[(n % 10) + 1]>>

DocumentIdOf(doc) == doc.documentId

NoFilter == [present |-> FALSE, dataroomId |-> "", hasDocumentIds |-> FALSE,
             documentIds |-> <<>>, hasPageRanges |-> FALSE, pageRanges |-> <<>>]

\* a filter that restricts to the first requested page only
buildMetadataFilter_firstPage(docs, qe) ==
    IF Len(qe.pageNumbers) > 0
    THEN [present |-> TRUE, dataroomId |-> DataroomId,
          hasDocumentIds |-> Len(docs) > 0,
          documentIds |-> MapSeq(DocumentIdOf, docs),
          hasPageRanges |-> TRUE,
          pageRanges |-> <<numToString(Head(qe.pageNumbers))>>]
    ELSE NoFilter

\* null when the filter object has a single key
buildMetadataFilter(docs, qe) ==
    LET hasDocs == Len(docs) > 0
        hasPages == Len(qe.pageNumbers) > 0
        keys == 1 + (IF hasDocs THEN 1 ELSE 0) + (IF hasPages THEN 1 ELSE 0)
    IN  IF keys > 1
        THEN [present |-> TRUE, dataroomId |-> DataroomId,
              hasDocumentIds |-> hasDocs,
              documentIds |-> IF hasDocs THEN MapSeq(DocumentIdOf, docs) ELSE <<>>,
              hasPageRanges |-> hasPages,
              pageRanges |-> IF hasPages THEN MapSeq(numToString, qe.pageNumbers) ELSE <<>>]
        ELSE NoFilter

\* the metadataFilter argument of performVectorSearchInternal
SearchFilterArg(docs, qe) ==
    LET metadataFilter == buildMetadataFilter(docs, qe)
        hasPageNumbers == Len(qe.pageNumbers) > 0
        useMetadataFilter == hasPageNumbers /\ metadataFilter.present
    IN  IF useMetadataFilter THEN metadataFilter ELSE NoFilter

(***************************************************************************)
(* The signal handed to the collaborators.                                 *)
(***************************************************************************)
\* abortSignal?.aborted
CallerSignalAborted == input.hasAbortSignal /\ callerAborted

\* pipelineSignal = abortSignal || timeoutSignal : which signal object it is
PipelineSignal(hasAbortSignal) == IF hasAbortSignal THEN "abortSignal" ELSE "timeoutSignal"

\* signal.aborted of a signal object
SignalAborted(signal) == IF signal = "abortSignal" THEN callerAborted ELSE timeoutElapsed

(***************************************************************************)
(* Responses and collaborator calls.                                       *)
(***************************************************************************)
FallbackArg(kind, message, text) == [kind |-> kind, message |-> message, text |-> text]

TookTooLong == FallbackArg("tookTooLong", NoMessage, <<>>)
NoPageContent == FallbackArg("noPageContent", NoMessage, <<>>)
QueryFallback(query) == FallbackArg("query", NoMessage, query)
PageFallback(message) == FallbackArg("pageValidation", message, <<>>)

\* responseGenerationService.createFallbackResponse
createFallbackResponse(arg) == [type |-> "fallback", arg |-> arg]

FallbackCall(arg) == [op |-> "fallback", arg |-> arg]

\* getSearchConfig: the SEARCH_CONFIGS entry (topK, similarityThreshold, timeoutMs)
getSearchConfig(strategy) ==
    CASE strategy = "FastVectorSearch" -> "FAST"
      [] strategy = "StandardVectorSearch" -> "STANDARD"
      [] strategy = "ExpandedSearch" -> "EXPANDED"
      [] strategy = "PageQueryStrategy" -> "PAGE_QUERY"
      [] OTHER -> "STANDARD"

\* a search call scoped to the first document only
SearchCall_firstDocument(q, docs, qe, signal, config) ==
    [op |-> "search", query |-> q, dataroomId |-> DataroomId,
     docIds |-> IF docs = <<>> THEN <<>> ELSE <<docs[1].documentId>>,
     signal |-> signal, config |-> config,
     filter |-> SearchFilterArg(docs, qe)]

SearchCall(q, docs, qe, signal, config) ==
    [op |-> "search", query |-> q, dataroomId |-> DataroomId,
     docIds |-> MapSeq(DocumentIdOf, docs), signal |-> signal, config |-> config,
     filter |-> SearchFilterArg(docs, qe)]

NoOutcome == [kind |-> "pending"]
Resolved(response) == [kind |-> "resolved", response |-> response]
Rejected(e) == [kind |-> "rejected", error |-> e]

CallsOf(op) == SelectSeq(calls, LAMBDA c : c.op = op)
Count(op) == Len(CallsOf(op))

Tracked(methods) == IF input.hasTracker THEN methods ELSE <<>>

(***************************************************************************)
(* Strategy dispatch.                                                      *)
(***************************************************************************)
\* a dispatch that sends an unrecognized strategy to the fast pipeline
PipelineOf_unknownIsFast(strategy) ==
    CASE strategy = "FastVectorSearch" -> "FastVectorSearch"
      [] strategy = "StandardVectorSearch" -> "StandardVectorSearch"
      [] strategy = "ExpandedSearch" -> "ExpandedSearch"
      [] strategy = "PageQueryStrategy" -> "PageQueryStrategy"
      [] OTHER -> "FastVectorSearch"

\* executeStrategyPipeline: the pipeline function a strategy value runs
PipelineOf(strategy) ==
    CASE strategy = "FastVectorSearch" -> "FastVectorSearch"
      [] strategy = "StandardVectorSearch" -> "StandardVectorSearch"
      [] strategy = "ExpandedSearch" -> "ExpandedSearch"
      [] strategy = "PageQueryStrategy" -> "PageQueryStrategy"
      [] OTHER -> "StandardVectorSearch"

\* a page pipeline that builds its queries as the other pipelines do
SearchQueriesOf_built(pipeline, query, qe) ==
    buildQueriesForStrategy(query, qe, "StandardVectorSearch")

\* the searchQueries of the pipeline function
SearchQueriesOf(pipeline, query, qe) ==
    IF pipeline = "PageQueryStrategy" THEN <<query>>
    ELSE buildQueriesForStrategy(query, qe, pipeline)

\* a collaborator call: idle, inflight, ok (with its result) or failed
NoError == [isError |-> FALSE, name |-> "none", message |-> <<>>]
IdleCall == [status |-> "idle", result |-> <<>>, error |-> NoError]
InflightCall == [status |-> "inflight", result |-> <<>>, error |-> NoError]
OkCall(result) == [status |-> "ok", result |-> result, error |-> NoError]
FailedCall(e) == [status |-> "failed", result |-> <<>>, error |-> e]

\* signalFired: whether the caller's signal had fired when the variant settled
PendingVariant == [status |-> "pending", returned |-> <<>>, contrib |-> <<>>,
                   signalFired |-> FALSE]

\* a generation call: the arguments that decide what is persisted
GenCall(entry, chatSessionId, hasTracker, hasAbortSignal) ==
    [entry |-> entry, chatSessionId |-> chatSessionId, hasTracker |-> hasTracker,
     hasAbortSignal |-> hasAbortSignal]

IdleGenCall == GenCall("", Undefined, FALSE, FALSE)

\* no generation call in progress
GenInit ==
    /\ genPc = "idle"
    /\ genArgs = IdleGenCall
    /\ genOutcome = NoOutcome
    /\ streamState = "none"
    /\ streamed = <<>>
    /\ storageCalls = <<>>
    /\ genTrackerCalls = <<>>
    /\ finishResult = "none"
    /\ logged = <<>>

\* no call in progress
IdleInput == RunInput(<<>>, <<>>, "StandardVectorSearch", NoExtraction, FALSE, FALSE)

Init ==
    /\ isDisposed = FALSE
    /\ pc = "idle"
    /\ input = IdleInput
    /\ callerAborted = FALSE
    /\ timeoutElapsed = FALSE
    /\ variants = <<>>
    /\ inflightSearch = {}
    /\ searchResults = <<>>
    /\ rerankSt = <<>>
    /\ compressSt = IdleCall
    /\ rerankedResults = <<>>
    /\ compressedContext = <<>>
    /\ relevantDocuments = <<>>
    /\ sources = <<>>
    /\ calls = <<>>
    /\ trackerCalls = <<>>
    /\ outcome = NoOutcome
    /\ abortSeen = FALSE
    /\ GenInit

stageVars == <<searchResults, rerankSt, compressSt, rerankedResults,
               compressedContext, relevantDocuments, sources>>
envVars == <<isDisposed, callerAborted, timeoutElapsed>>

(***************************************************************************)
(* processQuery, up to its first suspension.                               *)
(***************************************************************************)
\* a callback without the isDisposed check
RejectsDisposed_never == FALSE

\* the isDisposed check at the head of the callback
RejectsDisposed == isDisposed

processQuery(query, docs, strategy, qe, hasAbortSignal, hasTracker) ==
    /\ pc = "idle"
    /\ input' = RunInput(query, docs, strategy, qe, hasAbortSignal, hasTracker)
    /\ callerAborted' = FALSE
    /\ timeoutElapsed' = FALSE
    /\ inflightSearch' = {}
    /\ searchResults' = <<>>
    /\ rerankSt' = <<>>
    /\ compressSt' = IdleCall
    /\ rerankedResults' = <<>>
    /\ compressedContext' = <<>>
    /\ relevantDocuments' = <<>>
    /\ sources' = <<>>
    /\ abortSeen' = FALSE
    /\ UNCHANGED <<genVars, isDisposed>>
    /\ IF RejectsDisposed
       THEN /\ outcome' = Rejected(ServiceDisposedErr)
            /\ pc' = "done"
            /\ variants' = <<>>
            /\ calls' = <<>>
            /\ trackerCalls' = <<>>
       ELSE LET started == IF hasTracker
                           THEN <<"startTotal", "setQueryAnalysis", "setSearchStrategy">>
                           ELSE <<>>
                pageValidation == validatePagesAgainstDocuments(qe.pageNumbers, docs)
                pipeline == PipelineOf(strategy)
                searchQueries == SearchQueriesOf(pipeline, query, qe)
            IN  IF Len(qe.pageNumbers) > 0 /\ ~pageValidation.isValid
                   /\ pageValidation.errorMessage.template # "none"
                THEN /\ calls' = <<FallbackCall(PageFallback(pageValidation.errorMessage))>>
                     /\ trackerCalls' = started \o
                            (IF hasTracker THEN <<"setError", "endTotal">> ELSE <<>>)
                     /\ outcome' = Resolved(createFallbackResponse(
                                        PageFallback(pageValidation.errorMessage)))
                     /\ pc' = "done"
                     /\ variants' = <<>>
                ELSE /\ calls' = [i \in 1..Len(searchQueries) |->
                                     SearchCall(searchQueries[i], docs, qe,
                                                PipelineSignal(hasAbortSignal),
                                                getSearchConfig(pipeline))]
                     /\ trackerCalls' = started
                     /\ outcome' = NoOutcome
                     /\ pc' = "search"
                     /\ variants' = [i \in 1..Len(searchQueries) |-> PendingVariant]

\* dispose() is called between runs: a run reads isDisposed only at its head
dispose ==
    /\ pc = "idle"
    /\ isDisposed' = (IF isDisposed THEN isDisposed ELSE TRUE)
    /\ UNCHANGED <<genVars, pc, input, callerAborted, timeoutElapsed, variants, inflightSearch,
                   stageVars, calls, trackerCalls, outcome, abortSeen>>

\* the caller has the settled promise: nothing of the run is left
RunSettled ==
    /\ pc = "done"
    /\ pc' = "idle"
    /\ input' = IdleInput
    /\ callerAborted' = FALSE
    /\ timeoutElapsed' = FALSE
    /\ variants' = <<>>
    /\ inflightSearch' = {}
    /\ searchResults' = <<>>
    /\ rerankSt' = <<>>
    /\ compressSt' = IdleCall
    /\ rerankedResults' = <<>>
    /\ compressedContext' = <<>>
    /\ relevantDocuments' = <<>>
    /\ sources' = <<>>
    /\ calls' = <<>>
    /\ trackerCalls' = <<>>
    /\ outcome' = NoOutcome
    /\ abortSeen' = FALSE
    /\ UNCHANGED <<genVars, isDisposed>>

Running == pc \notin {"idle", "done"}

\* the caller aborts the signal it supplied
CallerAborts ==
    /\ Running
    /\ input.hasAbortSignal
    /\ ~callerAborted
    /\ callerAborted' = TRUE
    /\ UNCHANGED <<genVars, isDisposed, pc, input, timeoutElapsed, variants, inflightSearch,
                   stageVars, calls, trackerCalls, outcome, abortSeen>>

\* timeoutMs elapses: the signal of AbortSignal.timeout(timeoutMs) fires
TimeoutElapses ==
    /\ Running
    /\ ~timeoutElapsed
    /\ timeoutElapsed' = TRUE
    /\ UNCHANGED <<genVars, isDisposed, pc, input, callerAborted, variants, inflightSearch,
                   stageVars, calls, trackerCalls, outcome, abortSeen>>

(***************************************************************************)
(* How processQuery settles.                                               *)
(***************************************************************************)
\* RAGError.withErrorHandling: the callback's result or rejection is the call's
withErrorHandling(settled) == settled

\* the catch block's test for "user clicked stop"
IsAbortClassified(e) ==
    e.isError /\ (e.name = "AbortError" \/ MessageIncludesAborted(e)
                  \/ CallerSignalAborted)

\* the catch block's test for a timeout
IsTimeoutClassified(e) == e.isError /\ e.name = "TimeoutError"

AbortObserved(e) == abortSeen \/ (CallerSignalAborted /\ e = AbortErr)

\* executeStrategyPipeline returned `response`: the tail of the try block
ReturnResult(response, newCalls) ==
    /\ calls' = calls \o newCalls
    /\ trackerCalls' = trackerCalls \o Tracked(<<"endTotal">>)
    /\ outcome' = withErrorHandling(Resolved(response))
    /\ pc' = "done"

\* a catch block that records the error and leaves the total timer running
TopLevelCatch_timerLeftRunning(e) ==
    /\ trackerCalls' = trackerCalls \o Tracked(<<"setError">>)
    /\ pc' = "done"
    /\ IF e.isError /\ (e.name = "AbortError" \/ Contains(e.message, "aborted")
                         \/ CallerSignalAborted)
       THEN /\ outcome' = Rejected(e)
            /\ calls' = calls
       ELSE /\ outcome' = Resolved(createFallbackResponse(QueryFallback(input.query)))
            /\ calls' = Append(calls, FallbackCall(QueryFallback(input.query)))

\* a catch block that throws on whatever it caught
TopLevelCatch_rethrows(e) ==
    /\ trackerCalls' = trackerCalls \o Tracked(<<"setError", "endTotal">>)
    /\ pc' = "done"
    /\ outcome' = Rejected(e)
    /\ calls' = calls

\* executeStrategyPipeline threw e: the catch block of processQuery
TopLevelCatch(e) ==
    /\ trackerCalls' = trackerCalls \o Tracked(<<"setError", "endTotal">>)
    /\ pc' = "done"
    /\ IF IsAbortClassified(e)
       THEN /\ outcome' = withErrorHandling(Rejected(e))
            /\ calls' = calls
       ELSE IF IsTimeoutClassified(e)
       THEN /\ outcome' = withErrorHandling(Resolved(createFallbackResponse(TookTooLong)))
            /\ calls' = Append(calls, FallbackCall(TookTooLong))
       ELSE /\ outcome' = withErrorHandling(
                              Resolved(createFallbackResponse(QueryFallback(input.query))))
            /\ calls' = Append(calls, FallbackCall(QueryFallback(input.query)))

(***************************************************************************)
(* performVectorSearch.                                                    *)
(***************************************************************************)
searchVars == <<isDisposed, input, callerAborted, timeoutElapsed, pc, stageVars,
                calls, trackerCalls, outcome>>

\* the search call of variant i wins its race with results r
SearchResolves(i, r) ==
    /\ pc = "search"
    /\ i \in 1..Len(variants)
    /\ variants[i].status = "pending"
    /\ variants' = [variants EXCEPT ![i] = [status |-> "ok", returned |-> r, contrib |-> r,
                         signalFired |-> CallerSignalAborted]]
    /\ UNCHANGED <<genVars, searchVars, inflightSearch, abortSeen>>

\* a rejection that takes the variants still in flight down with it
SearchRejects_cancelsSiblings(i, e) ==
    /\ pc = "search"
    /\ i \in 1..Len(variants)
    /\ variants[i].status = "pending"
    /\ variants' = [k \in 1..Len(variants) |->
                        IF variants[k].status = "pending"
                        THEN [status |-> "error", returned |-> <<>>, contrib |-> <<>>,
                              signalFired |-> CallerSignalAborted]
                        ELSE variants[k]]
    /\ abortSeen' = (abortSeen \/ (CallerSignalAborted /\ e.name = "AbortError"))
    /\ UNCHANGED <<genVars, isDisposed, input, callerAborted, timeoutElapsed, pc, searchResults,
                   rerankSt, compressSt, rerankedResults, compressedContext,
                   relevantDocuments, sources, calls, trackerCalls, outcome,
                   inflightSearch>>

\* the search call of variant i rejects with e: the variant's catch returns []
SearchRejects(i, e) ==
    /\ pc = "search"
    /\ i \in 1..Len(variants)
    /\ variants[i].status = "pending"
    /\ variants' = [variants EXCEPT ![i] =
                        [status |-> "error", returned |-> <<>>, contrib |-> <<>>,
                         signalFired |-> CallerSignalAborted]]
    /\ abortSeen' = AbortObserved(e)
    /\ UNCHANGED <<genVars, searchVars, inflightSearch>>

\* a timeout that also stops the search call it raced against
QueryTimeoutWins_cancelsCall(i) ==
    /\ pc = "search"
    /\ i \in 1..Len(variants)
    /\ variants[i].status = "pending"
    /\ variants' = [variants EXCEPT ![i] =
                        [status |-> "timeout", returned |-> <<>>, contrib |-> <<>>,
                         signalFired |-> CallerSignalAborted]]
    /\ UNCHANGED <<genVars, searchVars, inflightSearch, abortSeen>>

\* the setTimeout of variant i wins its race: the variant's catch returns [],
\* the search call itself goes on
QueryTimeoutWins(i) ==
    /\ pc = "search"
    /\ i \in 1..Len(variants)
    /\ variants[i].status = "pending"
    /\ variants' = [variants EXCEPT ![i] =
                        [status |-> "timeout", returned |-> <<>>, contrib |-> <<>>,
                         signalFired |-> CallerSignalAborted]]
    /\ inflightSearch' = inflightSearch \cup {i}
    /\ UNCHANGED <<genVars, searchVars, abortSeen>>

\* a search call that lost its race settles; nobody reads what it returns
LateSearchSettles(i, r) ==
    /\ i \in inflightSearch
    /\ r \in ResultLists
    /\ inflightSearch' = inflightSearch \ {i}
    /\ UNCHANGED <<genVars, searchVars, variants, abortSeen>>

ContribOf(v) == v.contrib

\* a fan-in that gives up every list when one variant failed
MergeVariants_allOrNothing(vs) ==
    IF \E i \in 1..Len(vs) : vs[i].status # "ok" THEN <<>>
    ELSE removeDuplicateResults(Flatten(MapSeq(ContribOf, vs)))

\* Promise.all(searchPromises) resolved: combine and deduplicate
MergeVariants(vs) == removeDuplicateResults(Flatten(MapSeq(ContribOf, vs)))

\* a fan-in that goes on as soon as one variant has an outcome
FanIn_firstSettled ==
    /\ pc = "search"
    /\ \E i \in 1..Len(variants) : variants[i].status # "pending"
    /\ searchResults' = MergeVariants(variants)
    /\ pc' = "merged"
    /\ UNCHANGED <<genVars, envVars, input, variants, inflightSearch, rerankSt, compressSt,
                   rerankedResults, compressedContext, relevantDocuments, sources,
                   calls, trackerCalls, outcome, abortSeen>>

FanIn ==
    /\ pc = "search"
    /\ \A i \in 1..Len(variants) : variants[i].status # "pending"
    /\ searchResults' = MergeVariants(variants)
    /\ pc' = "merged"
    /\ UNCHANGED <<genVars, envVars, input, variants, inflightSearch, rerankSt, compressSt,
                   rerankedResults, compressedContext, relevantDocuments, sources,
                   calls, trackerCalls, outcome, abortSeen>>

(***************************************************************************)
(* The collaborators' answers.                                             *)
(***************************************************************************)
\* rerankResults returns the results reordered
RerankOutputs(results) == {results, Reverse(results)}

ChunkIdOf(r) == r.chunkId

\* compressContext returns a blob for the results
CompressOutput(results) == <<"digest">> \o MapSeq(ChunkIdOf, results)

GradedBy(r) ==
    [documentId |-> r.documentId, chunkId |-> r.chunkId, relevanceScore |-> 95,
     confidence |-> 85, reasoning |-> "graded", isRelevant |-> TRUE,
     suggestedWeight |-> 100, originalContent |-> r.content, metadata |-> r.metadata]

\* gradeAndFilterDocuments returns the relevant documents: all, or the first
GradeOutputs(results) == {MapSeq(GradedBy, results), MapSeq(GradedBy, Slice0(results, 1))}

DocumentNameFor(docs, id) ==
    IF \E i \in 1..Len(docs) : docs[i].documentId = id
    THEN NameOf(docs[CHOOSE i \in 1..Len(docs) : docs[i].documentId = id])
    ELSE <<"Unknown Document">>

\* sourceBuildingService.buildSources: one citation per relevant document
buildSources(relevant, raw, docs) ==
    [i \in 1..Len(relevant) |->
        [documentId |-> relevant[i].documentId, chunkId |-> relevant[i].chunkId,
         documentName |-> DocumentNameFor(docs, relevant[i].documentId)]]

(***************************************************************************)
(* The pipelines after retrieval.                                          *)
(***************************************************************************)
\* a fast path that synthesizes its records as the page pipeline does
FastGraded_directMatch(r) ==
    [documentId |-> r.documentId, chunkId |-> r.chunkId,
     relevanceScore |-> IF r.similarity # 0 THEN r.similarity ELSE 90,
     confidence |-> 90, reasoning |-> "Direct page match", isRelevant |-> TRUE,
     suggestedWeight |-> 100, originalContent |-> r.content, metadata |-> r.metadata]

\* scores are in hundredths: 80 is 0.8
FastGraded(r) ==
    [documentId |-> r.documentId, chunkId |-> r.chunkId,
     relevanceScore |-> IF r.similarity # 0 THEN r.similarity ELSE 80,
     confidence |-> 80, reasoning |-> "Fast path optimization", isRelevant |-> TRUE,
     suggestedWeight |-> 80, originalContent |-> r.content, metadata |-> r.metadata]

\* a page pipeline that synthesizes its records as the fast path does
PageGraded_fastPath(r) ==
    [documentId |-> r.documentId, chunkId |-> r.chunkId,
     relevanceScore |-> IF r.similarity # 0 THEN r.similarity ELSE 80,
     confidence |-> 80, reasoning |-> "Fast path optimization", isRelevant |-> TRUE,
     suggestedWeight |-> 80, originalContent |-> r.content, metadata |-> r.metadata]

PageGraded(r) ==
    [documentId |-> r.documentId, chunkId |-> r.chunkId,
     relevanceScore |-> IF r.similarity # 0 THEN r.similarity ELSE 90,
     confidence |-> 90, reasoning |-> "Direct page match", isRelevant |-> TRUE,
     suggestedWeight |-> 100, originalContent |-> r.content, metadata |-> r.metadata]

Pipeline == PipelineOf(input.strategy)
Refining == Pipeline \in {"StandardVectorSearch", "ExpandedSearch"}

BuildSourcesCall(relevant, raw) ==
    [op |-> "buildSources", relevant |-> relevant, raw |-> raw,
     indexedDocuments |-> input.indexedDocuments]

ContextSignal == PipelineSignal(input.hasAbortSignal)

RerankCall == [op |-> "rerank", query |-> input.query, results |-> searchResults,
               signal |-> ContextSignal]
CompressCall == [op |-> "compress", query |-> input.query, results |-> searchResults,
                 signal |-> ContextSignal]
GradeCall(results) == [op |-> "grade", query |-> input.query, results |-> results]

\* compression started before reranking
RefineCalls_compressFirst == <<CompressCall, RerankCall>>

\* the two calls handed to Promise.all, in the order they are started
RefineCalls == <<RerankCall, CompressCall>>

\* the pageNumbers argument of generateAnswer
PageNumbersArg ==
    IF Pipeline = "PageQueryStrategy"
    THEN [defined |-> TRUE, pages |-> input.queryExtraction.pageNumbers]
    ELSE [defined |-> input.queryExtraction.present,
          pages |-> input.queryExtraction.pageNumbers]

GenerateCall(contextText, srcs) ==
    [op |-> "generateAnswer", contextText |-> contextText, query |-> input.query,
     sources |-> srcs, signal |-> ContextSignal, pageNumbers |-> PageNumbersArg]

\* every pipeline answering an empty retrieval from the query
NoResultsArg_alwaysQuery == QueryFallback(input.query)

\* the fallback of a pipeline whose retrieval found nothing
NoResultsArg ==
    IF Pipeline = "PageQueryStrategy" THEN NoPageContent ELSE QueryFallback(input.query)

\* the pipeline function resumes with the merged results
AfterSearch ==
    /\ pc = "merged"
    /\ variants' = <<>>
    /\ UNCHANGED <<genVars, envVars, input, inflightSearch, searchResults, rerankedResults,
                   compressedContext, sources, abortSeen>>
    /\ IF Len(searchResults) = 0
       THEN /\ ReturnResult(createFallbackResponse(NoResultsArg),
                            <<FallbackCall(NoResultsArg)>>)
            /\ UNCHANGED <<rerankSt, compressSt, relevantDocuments>>
       ELSE IF ~Refining
       THEN LET graded == IF Pipeline = "PageQueryStrategy"
                          THEN MapSeq(PageGraded, searchResults)
                          ELSE MapSeq(FastGraded, searchResults)
            IN  /\ relevantDocuments' = graded
                /\ calls' = Append(calls, BuildSourcesCall(graded, searchResults))
                /\ pc' = "sources"
                /\ UNCHANGED <<rerankSt, compressSt, trackerCalls, outcome>>
       ELSE /\ rerankSt' = <<InflightCall>>
            /\ compressSt' = InflightCall
            /\ calls' = calls \o RefineCalls
            /\ pc' = "refine"
            /\ UNCHANGED <<relevantDocuments, trackerCalls, outcome>>

refineFrame == <<envVars, input, variants, inflightSearch, searchResults, pc,
                 rerankedResults, compressedContext, relevantDocuments, sources,
                 calls, trackerCalls, outcome>>

\* the call the run is suspended on (the others' results are never read)
RerankAwaited(k) == (pc = "refine" /\ k = 1) \/ (pc = "rerank2" /\ k = 2)
CompressAwaited == pc = "refine"

\* the k-th rerankResults call settles
RerankResolves(k, out) ==
    /\ k \in 1..Len(rerankSt)
    /\ rerankSt[k].status = "inflight"
    /\ out \in RerankOutputs(searchResults)
    /\ rerankSt' = [rerankSt EXCEPT ![k] =
                        IF RerankAwaited(k) THEN OkCall(out) ELSE OkCall(<<>>)]
    /\ UNCHANGED <<genVars, refineFrame, compressSt, abortSeen>>

RerankRejects(k, e) ==
    /\ k \in 1..Len(rerankSt)
    /\ rerankSt[k].status = "inflight"
    /\ rerankSt' = [rerankSt EXCEPT ![k] =
                        IF pc = "rerank2" /\ k = 2 THEN FailedCall(e)
                        ELSE FailedCall(NoError)]
    /\ abortSeen' = AbortObserved(e)
    /\ UNCHANGED <<genVars, refineFrame, compressSt>>

\* the compressContext call settles
CompressResolves ==
    /\ compressSt.status = "inflight"
    /\ compressSt' = IF CompressAwaited THEN OkCall(CompressOutput(searchResults))
                     ELSE OkCall(<<>>)
    /\ UNCHANGED <<genVars, refineFrame, rerankSt, abortSeen>>

CompressRejects(e) ==
    /\ compressSt.status = "inflight"
    /\ compressSt' = FailedCall(NoError)
    /\ abortSeen' = AbortObserved(e)
    /\ UNCHANGED <<genVars, refineFrame, rerankSt>>

stageFrame == <<envVars, input, variants, inflightSearch, searchResults, rerankSt,
                compressSt>>

\* Promise.all([rerank, compress]) resolved: on to grading
RefineJoin ==
    /\ pc = "refine"
    /\ rerankSt[1].status = "ok"
    /\ compressSt.status = "ok"
    /\ rerankedResults' = rerankSt[1].result
    /\ compressedContext' = compressSt.result
    /\ calls' = Append(calls, GradeCall(rerankSt[1].result))
    /\ pc' = "grading"
    /\ UNCHANGED <<genVars, stageFrame, relevantDocuments, sources, trackerCalls, outcome,
                   abortSeen>>

\* Promise.all([rerank, compress]) rejected: the catch block reranks again
RefineCatch ==
    /\ pc = "refine"
    /\ rerankSt[1].status = "failed" \/ compressSt.status = "failed"
    /\ rerankSt' = Append(rerankSt, InflightCall)
    /\ calls' = Append(calls, RerankCall)
    /\ pc' = "rerank2"
    /\ UNCHANGED <<genVars, envVars, input, variants, inflightSearch, searchResults,
                   compressSt, rerankedResults, compressedContext, relevantDocuments,
                   sources, trackerCalls, outcome, abortSeen>>

\* a catch block that joins the contents in reranked order
RerankAgainDone_rerankedOrder ==
    /\ pc = "rerank2"
    /\ rerankSt[2].status = "ok"
    /\ rerankedResults' = rerankSt[2].result
    /\ compressedContext' = JoinContents(rerankSt[2].result)
    /\ calls' = Append(calls, GradeCall(rerankSt[2].result))
    /\ pc' = "grading"
    /\ UNCHANGED <<genVars, stageFrame, relevantDocuments, sources, trackerCalls, outcome,
                   abortSeen>>

\* the catch block's rerank resolved: uncompressed context, on to grading
RerankAgainDone ==
    /\ pc = "rerank2"
    /\ rerankSt[2].status = "ok"
    /\ rerankedResults' = rerankSt[2].result
    /\ compressedContext' = JoinContents(searchResults)
    /\ calls' = Append(calls, GradeCall(rerankSt[2].result))
    /\ pc' = "grading"
    /\ UNCHANGED <<genVars, stageFrame, relevantDocuments, sources, trackerCalls, outcome,
                   abortSeen>>

\* the catch block's rerank rejected: the error leaves the pipeline
RerankAgainFailed ==
    /\ pc = "rerank2"
    /\ rerankSt[2].status = "failed"
    /\ TopLevelCatch(rerankSt[2].error)
    /\ UNCHANGED <<genVars, stageFrame, rerankedResults, compressedContext, relevantDocuments,
                   sources, abortSeen>>

\* gradeAndFilterDocuments resolved
GradeResolves(out) ==
    /\ pc = "grading"
    /\ out \in GradeOutputs(rerankedResults)
    /\ relevantDocuments' = out
    /\ calls' = Append(calls, BuildSourcesCall(out, rerankedResults))
    /\ pc' = "sources"
    /\ UNCHANGED <<genVars, stageFrame, rerankedResults, compressedContext, sources,
                   trackerCalls, outcome, abortSeen>>

\* gradeAndFilterDocuments rejected: all reranked results are used
GradeRejects(e) ==
    /\ pc = "grading"
    /\ relevantDocuments' = rerankedResults
    /\ calls' = Append(calls, BuildSourcesCall(rerankedResults, rerankedResults))
    /\ pc' = "sources"
    /\ abortSeen' = AbortObserved(e)
    /\ UNCHANGED <<genVars, stageFrame, rerankedResults, compressedContext, sources,
                   trackerCalls, outcome>>

\* the context text handed to generateAnswer
ContextText == IF Refining THEN compressedContext ELSE JoinContents(searchResults)
RawResults == IF Refining THEN rerankedResults ELSE searchResults

BuildSourcesResolves ==
    /\ pc = "sources"
    /\ sources' = buildSources(relevantDocuments, RawResults, input.indexedDocuments)
    /\ calls' = Append(calls, GenerateCall(ContextText, sources'))
    /\ pc' = "generating"
    /\ UNCHANGED <<genVars, stageFrame, rerankedResults, compressedContext, relevantDocuments,
                   trackerCalls, outcome, abortSeen>>

BuildSourcesRejects(e) ==
    /\ pc = "sources"
    /\ TopLevelCatch(e)
    /\ abortSeen' = AbortObserved(e)
    /\ UNCHANGED <<genVars, stageFrame, rerankedResults, compressedContext, relevantDocuments,
                   sources>>

\* responseGenerationService.generateAnswer's streaming response
Answer == [type |-> "answer", contextText |-> ContextText, sources |-> sources,
           pageNumbers |-> PageNumbersArg]

\* a pipeline that drops the generated answer for the fallback answer
GenerateResolves_discardsAnswer ==
    /\ pc = "generating"
    /\ ReturnResult(createFallbackResponse(QueryFallback(input.query)),
                    <<FallbackCall(QueryFallback(input.query))>>)
    /\ UNCHANGED <<genVars, stageFrame, rerankedResults, compressedContext, relevantDocuments,
                   sources, abortSeen>>

GenerateResolves ==
    /\ pc = "generating"
    /\ ReturnResult(Answer, <<>>)
    /\ UNCHANGED <<genVars, stageFrame, rerankedResults, compressedContext, relevantDocuments,
                   sources, abortSeen>>

\* a generateAnswer failure that always leaves the pipeline
GenerateRejects_alwaysThrown(e) ==
    /\ pc = "generating"
    /\ TopLevelCatch(e)
    /\ abortSeen' = AbortObserved(e)
    /\ UNCHANGED <<genVars, stageFrame, rerankedResults, compressedContext, relevantDocuments,
                   sources>>

\* generateAnswer rejected: caught in the shared pipeline of a refining run,
\* thrown on by the fast path and the page pipeline
GenerateRejects(e) ==
    /\ pc = "generating"
    /\ IF Refining
       THEN ReturnResult(createFallbackResponse(QueryFallback(input.query)),
                         <<FallbackCall(QueryFallback(input.query))>>)
       ELSE TopLevelCatch(e)
    /\ abortSeen' = AbortObserved(e)
    /\ UNCHANGED <<genVars, stageFrame, rerankedResults, compressedContext, relevantDocuments,
                   sources>>

(***************************************************************************)
(* The specification.                                                      *)
(***************************************************************************)
StartRun(in) ==
    processQuery(in.query, in.indexedDocuments, in.strategy, in.queryExtraction,
                 in.hasAbortSignal, in.hasTracker)

\* everything that happens once a call has started
PipelineSteps ==
    \/ dispose
    \/ CallerAborts
    \/ \E i \in 1..Len(variants), r \in ResultLists : SearchResolves(i, r)
    \/ \E i \in 1..Len(variants), e \in SwallowedErrors : SearchRejects(i, e)
    \/ \E i \in 1..Len(variants) : QueryTimeoutWins(i)
    \/ \E i \in inflightSearch, r \in ResultLists : LateSearchSettles(i, r)
    \/ FanIn
    \/ AfterSearch
    \/ \E k \in 1..Len(rerankSt), out \in RerankOutputs(searchResults) :
            RerankResolves(k, out)
    \/ \E k \in 1..Len(rerankSt) :
            \E e \in (IF k = 1 THEN SwallowedErrors ELSE Errors) : RerankRejects(k, e)
    \/ CompressResolves
    \/ \E e \in SwallowedErrors : CompressRejects(e)
    \/ RefineJoin
    \/ RefineCatch
    \/ RerankAgainDone
    \/ RerankAgainFailed
    \/ \E out \in GradeOutputs(rerankedResults) : GradeResolves(out)
    \/ \E e \in SwallowedErrors : GradeRejects(e)
    \/ BuildSourcesResolves
    \/ \E e \in Errors : BuildSourcesRejects(e)

Steps ==
    \/ RunSettled
    \/ PipelineSteps
    \/ GenerateResolves
    \/ \E e \in Errors : GenerateRejects(e)

Next ==
    \/ \E in \in RunInputs : StartRun(in)
    \/ Steps

Spec == Init /\ [][Next]_vars

(***************************************************************************)
(* The same runs with the timeout timer: timeoutMs may elapse at any point *)
(* of a run.                                                               *)
(***************************************************************************)
NextTimed ==
    \/ \E in \in BaseInputs : StartRun(in)
    \/ TimeoutElapses
    \/ Steps

SpecTimed == Init /\ [][NextTimed]_vars

(***************************************************************************)
(* Query-variant construction on its own: a call is started for each input *)
(* and the search calls it issues are counted; no call settles.            *)
(***************************************************************************)
\* the i-th rewritten query: "r1", "r2", ...
Rewritten(i) == <<"r">> \o numToString(i)

QueryTestInputs ==
    {RunInput(BaseQuery, BaseDocuments, s,
              RewriteExtraction([i \in 1..n |-> Rewritten(i)], h), FALSE, FALSE) :
        s \in RunStrategies, n \in 0..MaxRewritten, h \in BOOLEAN}

\* longest list of rewritten queries among the inputs below
MaxVariantRewritten == 2

\* strings that trim() changes, empties, and strings equal after trim()
VariantStrings == {<<"q">>, <<WS, "r">>, <<"r", WS>>, <<>>, <<WS>>}

\* inputs whose strings need trimming, dropping and deduplicating
VariantTestInputs ==
    {RunInput(q, BaseDocuments, s,
              [present |-> TRUE, pageNumbers |-> <<>>, rewrittenQueries |-> rw,
               hydeAnswer |-> h, requiresHyde |-> rh], FALSE, FALSE) :
        q \in {BaseQuery, PaddedQuery, <<>>, <<WS>>},
        s \in {"FastVectorSearch", "StandardVectorSearch", "ExpandedSearch"},
        rw \in SeqsUpTo(VariantStrings \cup {Undefined}, MaxVariantRewritten),
        h \in {<<>>, <<"q">>, <<"h", WS>>, <<WS>>},
        rh \in BOOLEAN}

NextQueries == pc = "idle" /\ StartRun(input)

InitQueries ==
    /\ isDisposed = FALSE
    /\ pc = "idle"
    /\ input \in QueryTestInputs \cup VariantTestInputs
    /\ callerAborted = FALSE
    /\ timeoutElapsed = FALSE
    /\ variants = <<>>
    /\ inflightSearch = {}
    /\ searchResults = <<>>
    /\ rerankSt = <<>>
    /\ compressSt = IdleCall
    /\ rerankedResults = <<>>
    /\ compressedContext = <<>>
    /\ relevantDocuments = <<>>
    /\ sources = <<>>
    /\ calls = <<>>
    /\ trackerCalls = <<>>
    /\ outcome = NoOutcome
    /\ abortSeen = FALSE
    /\ GenInit

SpecQueries == InitQueries /\ [][NextQueries]_vars

(***************************************************************************)
(* Answer generation (TextGenerationService).  Each entry point hands the  *)
(* model call to streamText and returns the stream's response at once; the *)
(* stream then runs on its own and calls onFinish when it has completed.   *)
(***************************************************************************)
\* longest streamed text, in tokens
MaxStreamLen == 2

StreamTokens == {"a", "b"}

\* chatSessionId: undefined, the empty string, or a session id
SessionIds == {Undefined, <<>>, <<"s1">>}

\* JavaScript truthiness of an optional string
Truthy(s) == s # Undefined /\ s # <<>>

\* totalUsage as onFinish receives it
NoUsage == [present |-> FALSE, promptTokens |-> 0, completionTokens |-> 0,
            totalTokens |-> 0]
SomeUsage == [present |-> TRUE, promptTokens |-> 3, completionTokens |-> 2,
              totalTokens |-> 5]
Usages == {NoUsage, SomeUsage}

\* what metadataTracker.getMetadata() returns
TrackerMetadata == "metadata"

\* stream.toUIMessageStreamResponse()
StreamResponse(entry) == [type |-> "uiMessageStream", entry |-> entry]

\* generateFallbackResponse takes no signal; the other two pass theirs on
PassesSignal(args) ==
    args.entry # "generateFallbackResponse" /\ args.hasAbortSignal

SetTokenUsageCall(usage) ==
    [method |-> "setTokenUsage", inputTokens |-> usage.promptTokens,
     outputTokens |-> usage.completionTokens, totalTokens |-> usage.totalTokens]

GetMetadataCall ==
    [method |-> "getMetadata", inputTokens |-> 0, outputTokens |-> 0,
     totalTokens |-> 0]

AddMessageCall(text, chatSessionId, metadata) ==
    [sessionId |-> chatSessionId, role |-> "assistant", content |-> text,
     metadata |-> metadata]

LogEntry(source, e) == [source |-> source, error |-> e]

genCallVars == <<genArgs, genOutcome>>

\* streamText(streamOptions); return stream.toUIMessageStreamResponse()
StartStream(entry) ==
    /\ streamState' = "open"
    /\ streamed' = <<>>
    /\ genOutcome' = Resolved(StreamResponse(entry))
    /\ genPc' = "streaming"

\* a call begins: nothing streamed, nothing persisted
BeginGeneration(args) ==
    /\ genPc = "idle"
    /\ genArgs' = args
    /\ storageCalls' = <<>>
    /\ genTrackerCalls' = <<>>
    /\ finishResult' = "none"
    /\ logged' = <<>>
    /\ UNCHANGED orchVars

\* up to the await of the system prompt
generateRAGResponse(chatSessionId, hasTracker, hasAbortSignal) ==
    /\ BeginGeneration(GenCall("generateRAGResponse", chatSessionId, hasTracker,
                               hasAbortSignal))
    /\ genPc' = "prompt"
    /\ genOutcome' = NoOutcome
    /\ UNCHANGED <<streamState, streamed>>

\* up to the await of the fallback prompt
generateFallbackResponse(chatSessionId, hasTracker) ==
    /\ BeginGeneration(GenCall("generateFallbackResponse", chatSessionId,
                               hasTracker, FALSE))
    /\ genPc' = "prompt"
    /\ genOutcome' = NoOutcome
    /\ UNCHANGED <<streamState, streamed>>

\* nothing is awaited: the response is returned in the same step
generateSimpleResponse(chatSessionId, hasTracker, hasAbortSignal) ==
    /\ BeginGeneration(GenCall("generateSimpleResponse", chatSessionId,
                               hasTracker, hasAbortSignal))
    /\ StartStream("generateSimpleResponse")

\* the prompt was rendered: the stream is opened and its response returned
PromptResolves ==
    /\ genPc = "prompt"
    /\ StartStream(genArgs.entry)
    /\ UNCHANGED <<orchVars, genArgs, storageCalls, genTrackerCalls, finishResult,
                   logged>>

\* the prompt manager rejected: generateRAGResponse logs and rethrows,
\* generateFallbackResponse has no handler
PromptRejects(e) ==
    /\ genPc = "prompt"
    /\ genOutcome' = Rejected(e)
    /\ genPc' = "closed"
    /\ logged' = IF genArgs.entry = "generateRAGResponse"
                 THEN Append(logged, LogEntry("generateRAGResponse", e))
                 ELSE logged
    /\ UNCHANGED <<orchVars, genArgs, streamState, streamed, storageCalls,
                   genTrackerCalls, finishResult>>

\* the stream delivers one more piece of the answer and persists it
StreamEmits_persistsChunk(t) ==
    /\ streamState = "open"
    /\ Len(streamed) < MaxStreamLen
    /\ streamed' = Append(streamed, t)
    /\ storageCalls' = Append(storageCalls,
                              AddMessageCall(streamed', genArgs.chatSessionId,
                                             TrackerMetadata))
    /\ UNCHANGED <<orchVars, genPc, genCallVars, streamState, genTrackerCalls,
                   finishResult, logged>>

\* the stream delivers one more piece of the answer
StreamEmits(t) ==
    /\ streamState = "open"
    /\ Len(streamed) < MaxStreamLen
    /\ streamed' = Append(streamed, t)
    /\ UNCHANGED <<orchVars, genPc, genCallVars, streamState, storageCalls,
                   genTrackerCalls, finishResult, logged>>

\* the model call failed in mid-stream: onError logs, onFinish is not called
StreamErrors(e) ==
    /\ streamState = "open"
    /\ streamState' = "errored"
    /\ genPc' = "closed"
    /\ logged' = Append(logged, LogEntry("onError", e))
    /\ UNCHANGED <<orchVars, genCallVars, streamed, storageCalls, genTrackerCalls,
                   finishResult>>

\* the signal given to streamText fired: onAbort, onFinish is not called
StreamAborts ==
    /\ streamState = "open"
    /\ PassesSignal(genArgs)
    /\ streamState' = "aborted"
    /\ genPc' = "closed"
    /\ UNCHANGED <<orchVars, genCallVars, streamed, storageCalls, genTrackerCalls,
                   finishResult, logged>>

\* the catch block of storeAssistantMessageWithContext lets the error escape
PersistenceFailed_unhandled(e) ==
    /\ logged' = logged
    /\ finishResult' = "threw"
    /\ genPc' = "closed"

\* the catch block of storeAssistantMessageWithContext: log, return normally,
\* so that onFinish completes
PersistenceFailed(e) ==
    /\ logged' = Append(logged, LogEntry("storeAssistantMessageWithContext", e))
    /\ finishResult' = "completed"
    /\ genPc' = "closed"

\* a store that takes the metadata snapshot before it records the usage
TrackerCallsOnStore_snapshotFirst(usage, setThrows) ==
    IF usage.present
    THEN IF setThrows THEN <<GetMetadataCall, SetTokenUsageCall(usage)>>
         ELSE <<GetMetadataCall, SetTokenUsageCall(usage)>>
    ELSE <<GetMetadataCall>>

\* the tracker methods storeAssistantMessageWithContext calls before it
\* calls addMessage, up to the first one that throws
TrackerCallsOnStore(usage, setThrows) ==
    IF usage.present
    THEN IF setThrows THEN <<SetTokenUsageCall(usage)>>
         ELSE <<SetTokenUsageCall(usage), GetMetadataCall>>
    ELSE <<GetMetadataCall>>

\* storeAssistantMessageWithContext up to the await of addMessage
storeAssistantMessageWithContext(text, usage, setThrows, metaThrows, e) ==
    /\ genTrackerCalls' = genTrackerCalls \o TrackerCallsOnStore(usage, setThrows)
    /\ IF (usage.present /\ setThrows) \/ metaThrows
       THEN /\ PersistenceFailed(e)
            /\ UNCHANGED storageCalls
       ELSE /\ storageCalls' = Append(storageCalls,
                                      AddMessageCall(text, genArgs.chatSessionId,
                                                     TrackerMetadata))
            /\ genPc' = "storing"
            /\ finishResult' = "running"
            /\ UNCHANGED logged

\* the stream completed: streamText calls onFinish({ text, totalUsage })
StreamFinishes(usage, setThrows, metaThrows, e) ==
    /\ streamState = "open"
    /\ streamState' = "finished"
    /\ IF Truthy(genArgs.chatSessionId) /\ genArgs.hasTracker
       THEN storeAssistantMessageWithContext(streamed, usage, setThrows,
                                             metaThrows, e)
       ELSE /\ finishResult' = "completed"
            /\ genPc' = "closed"
            /\ UNCHANGED <<storageCalls, genTrackerCalls, logged>>
    /\ UNCHANGED <<orchVars, genCallVars, streamed>>

\* addMessage resolved: onFinish completes
AddMessageResolves ==
    /\ genPc = "storing"
    /\ finishResult' = "completed"
    /\ genPc' = "closed"
    /\ UNCHANGED <<orchVars, genCallVars, streamState, streamed, storageCalls,
                   genTrackerCalls, logged>>

\* addMessage rejected
AddMessageRejects(e) ==
    /\ genPc = "storing"
    /\ PersistenceFailed(e)
    /\ UNCHANGED <<orchVars, genCallVars, streamState, streamed, storageCalls,
                   genTrackerCalls>>

\* the call is over; the service is ready for the next one
GenerationSettled ==
    /\ genPc = "closed"
    /\ genPc' = "idle"
    /\ genArgs' = IdleGenCall
    /\ genOutcome' = NoOutcome
    /\ streamState' = "none"
    /\ streamed' = <<>>
    /\ storageCalls' = <<>>
    /\ genTrackerCalls' = <<>>
    /\ finishResult' = "none"
    /\ logged' = <<>>
    /\ UNCHANGED orchVars

NextGeneration ==
    \/ \E sid \in SessionIds, tr \in BOOLEAN, sig \in BOOLEAN :
            generateRAGResponse(sid, tr, sig)
    \/ \E sid \in SessionIds, tr \in BOOLEAN : generateFallbackResponse(sid, tr)
    \/ \E sid \in SessionIds, tr \in BOOLEAN, sig \in BOOLEAN :
            generateSimpleResponse(sid, tr, sig)
    \/ PromptResolves
    \/ \E e \in SwallowedErrors : PromptRejects(e)
    \/ \E t \in StreamTokens : StreamEmits(t)
    \/ \E e \in SwallowedErrors : StreamErrors(e)
    \/ StreamAborts
    \/ \E u \in Usages, st \in BOOLEAN, mt \in BOOLEAN :
            StreamFinishes(u, st, mt, GenericErr)
    \/ AddMessageResolves
    \/ \E e \in SwallowedErrors : AddMessageRejects(e)
    \/ GenerationSettled

SpecGeneration == Init /\ [][NextGeneration]_vars

(***************************************************************************)
(* A run of the pipeline together with the answer it streams.              *)
(* generateAnswer hands its arguments to generateRAGResponse and returns   *)
(* that call's response: the pipeline's generateAnswer call is in flight   *)
(* while the prompt is rendered, and the step that opens the stream is the *)
(* step in which processQuery gets the response and runs its tail, since   *)
(* no timer or I/O callback separates the two.  The stream then runs on    *)
(* while the caller reads the response.                                    *)
(***************************************************************************)
AnswerInputs ==
    {RunInput(BaseQuery, BaseDocuments, s, NoExtraction, TRUE, tr) :
        s \in {"FastVectorSearch", "StandardVectorSearch"}, tr \in BOOLEAN}

\* the generation call belongs to the run in progress
AnswerOfRun == pc # "idle" /\ genArgs.entry = "generateRAGResponse"

\* generateAnswer(..., context.chatSessionId, context.metadataTracker, ...)
generateAnswer(chatSessionId) ==
    /\ pc = "generating"
    /\ generateRAGResponse(chatSessionId, input.hasTracker, input.hasAbortSignal)

\* the stream is open: generateAnswer resolves with its response and
\* processQuery returns it
AnswerReturned ==
    /\ pc = "generating"
    /\ genPc = "prompt"
    /\ StartStream(genArgs.entry)
    /\ ReturnResult(Answer, <<>>)
    /\ UNCHANGED <<genArgs, storageCalls, genTrackerCalls, finishResult, logged>>
    /\ UNCHANGED <<stageFrame, rerankedResults, compressedContext, relevantDocuments,
                   sources, abortSeen>>

\* the prompt could not be built: generateAnswer rejects
AnswerRejected(e) ==
    /\ pc = "generating"
    /\ genPc = "prompt"
    /\ genOutcome' = Rejected(e)
    /\ genPc' = "closed"
    /\ logged' = Append(logged, LogEntry("generateRAGResponse", e))
    /\ IF Refining
       THEN ReturnResult(createFallbackResponse(QueryFallback(input.query)),
                         <<FallbackCall(QueryFallback(input.query))>>)
       ELSE TopLevelCatch(e)
    /\ abortSeen' = AbortObserved(e)
    /\ UNCHANGED <<genArgs, streamState, streamed, storageCalls, genTrackerCalls,
                   finishResult>>
    /\ UNCHANGED <<stageFrame, rerankedResults, compressedContext, relevantDocuments,
                   sources>>

NextAnswer ==
    \/ \E in \in AnswerInputs : genPc = "idle" /\ StartRun(in)
    \/ PipelineSteps
    \/ \E sid \in SessionIds : generateAnswer(sid)
    \/ AnswerReturned
    \/ \E e \in SwallowedErrors : AnswerRejected(e)
    \/ \E t \in StreamTokens : StreamEmits(t)
    \/ \E e \in SwallowedErrors : StreamErrors(e)
    \/ StreamAborts
    \/ \E u \in Usages, st \in BOOLEAN, mt \in BOOLEAN :
            StreamFinishes(u, st, mt, GenericErr)
    \/ AddMessageResolves
    \/ \E e \in SwallowedErrors : AddMessageRejects(e)
    \/ genPc \in {"idle", "closed"} /\ RunSettled
    \/ pc = "idle" /\ GenerationSettled

SpecAnswer == Init /\ [][NextAnswer]_vars

(***************************************************************************)
(* Properties.                                                             *)
(***************************************************************************)
RequestedPages == input.queryExtraction.pageNumbers

\* page p is below 1 or above the page count of every indexed document
OutOfRange(p, docs) == p < 1 \/ \A i \in 1..Len(docs) : p > docs[i].numPages

HasInvalidPage ==
    \E k \in 1..Len(RequestedPages) : OutOfRange(RequestedPages[k], input.indexedDocuments)

\* M: the largest page count of a non-empty list of documents
MaxPageCount(docs) ==
    CHOOSE m \in {docs[i].numPages : i \in 1..Len(docs)} :
        \A i \in 1..Len(docs) : docs[i].numPages <= m

IsPageFallback(c) == c.op = "fallback" /\ c.arg.kind = "pageValidation"

\* only the out-of-range template interpolates pages, bound and names
IsRangeText(msg) == msg.template \in {"Page doesn't exist", "Pages don't exist"}

TextHasPage(msg, p) == IsRangeText(msg) /\ Contains(msg.invalidPageList, p)
TextHasBound(msg, m) == IsRangeText(msg) /\ msg.maxPagesInDocuments = m
TextHasName(msg, name) == IsRangeText(msg) /\ Contains(msg.documentNames, name)

\* C1: a call on a live orchestrator whose caller never aborts resolves with an
\* answer and never rejects, whatever the collaborators fail with.
C1_NeverRejects ==
    (pc = "done" /\ ~isDisposed /\ ~CallerSignalAborted) => outcome.kind = "resolved"

\* C2: once the caller's signal has fired and a collaborator call has failed with an
\* abort error for it, the call rejects with that error and gives no fallback answer.
C2_AbortRejects ==
    (pc = "done" /\ abortSeen) => outcome = Rejected(AbortErr)

\* C3: on a disposed orchestrator a call rejects with serviceDisposed before any
\* collaborator or tracker call is made, the flag never goes back to false, and a
\* second dispose() changes nothing.
C3_DisposedRejectsBeforeWork ==
    /\ [](isDisposed => /\ pc \in {"idle", "done"}
                        /\ calls = <<>>
                        /\ trackerCalls = <<>>
                        /\ (pc = "done" => outcome = Rejected(ServiceDisposedErr)))
    /\ [][isDisposed => isDisposed']_vars
    /\ [][(isDisposed /\ pc = "idle" /\ pc' = "idle") => UNCHANGED vars]_vars

C3_Witness ==
    isDisposed /\ pc = "done" /\ outcome = Rejected(ServiceDisposedErr)

\* C4: the signal handed to a collaborator has fired exactly when the caller's
\* signal has fired or timeoutMs has elapsed, also when the caller supplied a signal.
C4_SignalFiresOnEither ==
    \A i \in 1..Len(calls) :
        calls[i].op \in {"search", "rerank", "compress", "generateAnswer"} =>
            (SignalAborted(calls[i].signal) <=> (CallerSignalAborted \/ timeoutElapsed))

\* C5: a call with a requested page below 1 or above every document's page count
\* makes no search, rerank, compress, grade, buildSources or generateAnswer call and
\* resolves with a fallback answer; a search call is only ever made after validation
\* has passed.
C5_InvalidPageShortCircuits ==
    /\ (pc # "idle" /\ ~isDisposed /\ HasInvalidPage) =>
            /\ pc = "done"
            /\ \A i \in 1..Len(calls) : calls[i].op = "fallback"
            /\ outcome.kind = "resolved"
            /\ outcome.response.type = "fallback"
    /\ Count("search") > 0 => ~HasInvalidPage

C5_Witness ==
    /\ pc = "done" /\ ~isDisposed /\ HasInvalidPage
    /\ input.strategy = "StandardVectorSearch"
    /\ \E k \in 1..Len(RequestedPages) : RequestedPages[k] < 1
    /\ \A k \in 1..Len(RequestedPages) : RequestedPages[k] <= 1
    /\ Len(input.indexedDocuments) = 2
    /\ outcome.kind = "resolved"

\* C6: the text handed to the fallback generator for a request with a page outside
\* 1..M names every offending page, the bound M and every document name, for every
\* list of documents, the empty list and documents without page count included.
C6_TextNamesPagesBoundDocuments ==
    \A i \in 1..Len(calls) :
        IsPageFallback(calls[i]) =>
            LET msg == calls[i].arg.message
                docs == input.indexedDocuments
            IN  /\ \A k \in 1..Len(RequestedPages) :
                        OutOfRange(RequestedPages[k], docs) =>
                            TextHasPage(msg, RequestedPages[k])
                /\ docs # <<>> => TextHasBound(msg, MaxPageCount(docs))
                /\ \A d \in 1..Len(docs) :
                        docs[d].documentName # <<>> =>
                            TextHasName(msg, docs[d].documentName)

\* C6 (amended): when the list of documents is not empty and M >= 1 the text names
\* every offending page, M and every document name, "Unknown Document" standing for
\* a missing name; for an empty list and for M = 0 the text is a fixed sentence.
C6_TextNamesPagesBoundDocuments_Amended ==
    \A i \in 1..Len(calls) :
        IsPageFallback(calls[i]) =>
            LET msg == calls[i].arg.message
                docs == input.indexedDocuments
            IN  IF docs = <<>>
                THEN msg.template = "No documents available to validate pages against"
                ELSE IF MaxPageCount(docs) = 0
                THEN msg.template = "Documents have no page information available"
                ELSE /\ \A k \in 1..Len(RequestedPages) :
                            OutOfRange(RequestedPages[k], docs) =>
                                TextHasPage(msg, RequestedPages[k])
                     /\ TextHasBound(msg, MaxPageCount(docs))
                     /\ \A d \in 1..Len(docs) :
                            TextHasName(msg, IF docs[d].documentName = <<>>
                                             THEN <<"Unknown Document">>
                                             ELSE docs[d].documentName)

C6_Witness ==
    /\ pc = "done"
    /\ Len(calls) = 1 /\ IsPageFallback(calls[1])
    /\ Len(input.indexedDocuments) = 2
    /\ MaxPageCount(input.indexedDocuments) >= 1
    /\ \E d \in 1..Len(input.indexedDocuments) :
            input.indexedDocuments[d].documentName = <<>>
    /\ \E j, k \in 1..Len(RequestedPages) :
            /\ RequestedPages[j] < 1
            /\ RequestedPages[k] > MaxPageCount(input.indexedDocuments)

\* C7: a call issues at most 3 search calls under FastVectorSearch, at most 15 under
\* StandardVectorSearch and at most 20 under ExpandedSearch, whatever the rewritten
\* queries and the hypothetical answer are.
C7_VariantCountBounded ==
    pc = "search" =>
        /\ input.strategy = "FastVectorSearch" => Count("search") <= 3
        /\ input.strategy = "StandardVectorSearch" => Count("search") <= 15
        /\ input.strategy = "ExpandedSearch" => Count("search") <= 20

\* C8: a PageQueryStrategy call that gets past the disposed check and page
\* validation makes exactly one search call, and its query is the query as the
\* caller gave it, untrimmed.
C8_PageRunSearchesOnceRaw ==
    (input.strategy = "PageQueryStrategy" /\ pc # "idle" /\ ~isDisposed
        /\ ~HasInvalidPage) =>
            /\ Count("search") = 1
            /\ CallsOf("search")[1].query = input.query

C8_Witness ==
    /\ input.strategy = "PageQueryStrategy"
    /\ pc = "done"
    /\ input.query = PaddedQuery
    /\ Len(input.queryExtraction.rewrittenQueries) > 0
    /\ input.queryExtraction.requiresHyde
    /\ Count("search") = 1
    /\ Count("generateAnswer") = 1
    /\ outcome.kind = "resolved"

\* everything the variants contributed, in the order the variants were issued
Contributed == Flatten(MapSeq(ContribOf, variants))

\* the positions of `all` that hold the first occurrence of their chunkId
FirstIdx(all) ==
    {i \in 1..Len(all) : \A j \in 1..(i - 1) : all[j].chunkId # all[i].chunkId}

\* C9: the merged list has at most one entry per chunkId, and it is the first
\* occurrence in the order the variants were issued, whatever order they completed in.
C9_MergedKeepsFirstOccurrence ==
    pc = "merged" =>
        /\ \A a, b \in 1..Len(searchResults) :
                a # b => searchResults[a].chunkId # searchResults[b].chunkId
        /\ Len(searchResults) = Cardinality(FirstIdx(Contributed))
        /\ \A i \in FirstIdx(Contributed) :
                searchResults[Cardinality({j \in FirstIdx(Contributed) : j <= i})]
                    = Contributed[i]

C9_Witness ==
    /\ pc = "merged"
    /\ Len(variants) >= 2
    /\ \E i, j \in 1..Len(Contributed) :
            /\ i < j
            /\ Contributed[i].chunkId = Contributed[j].chunkId
            /\ Contributed[i] # Contributed[j]
    /\ Len(searchResults) = 2

\* C10: a variant whose search call failed or lost to its timeout contributes the
\* empty list, what the other variants returned is merged all the same, and
\* retrieval itself never rejects.
C10_FailedVariantContributesNothing ==
    /\ [](pc \in {"search", "merged"} =>
            \A i \in 1..Len(variants) :
                /\ variants[i].status \in {"error", "timeout"} => variants[i].contrib = <<>>
                /\ variants[i].status = "ok" => variants[i].contrib = variants[i].returned)
    /\ [](pc = "merged" =>
            /\ \A i \in 1..Len(variants) :
                    variants[i].status = "ok" =>
                        \A k \in 1..Len(variants[i].returned) :
                            \E m \in 1..Len(searchResults) :
                                searchResults[m].chunkId = variants[i].returned[k].chunkId
            /\ \A m \in 1..Len(searchResults) :
                    \E i \in 1..Len(variants) :
                        /\ variants[i].status = "ok"
                        /\ Contains(variants[i].returned, searchResults[m]))
    /\ [][pc = "search" => (pc' \in {"search", "merged"} /\ outcome' = NoOutcome)]_vars

C10_Witness ==
    /\ pc = "merged"
    /\ \E i, j \in 1..Len(variants) :
            /\ variants[i].status = "error"
            /\ variants[j].status = "ok"
            /\ variants[j].returned # <<>>
    /\ searchResults # <<>>

\* C11: when the caller's signal fires while several variant searches are in flight,
\* a variant that fails for it changes nothing of its siblings: they stay in flight,
\* and what they return afterwards is merged; only the failed variant contributes
\* the empty list.
C11_AbortLeavesSiblingsAlone ==
    /\ [][(pc = "search" /\ CallerSignalAborted /\ pc' = "search") =>
            \A i, j \in 1..Len(variants) :
                (variants'[i] # variants[i] /\ variants'[j] # variants[j]) => i = j]_vars
    /\ [](pc = "merged" /\ abortSeen =>
            \A i \in 1..Len(variants) :
                /\ variants[i].status = "error" => variants[i].contrib = <<>>
                /\ variants[i].status = "ok" =>
                        \A k \in 1..Len(variants[i].returned) :
                            \E m \in 1..Len(searchResults) :
                                searchResults[m].chunkId = variants[i].returned[k].chunkId)

C11_Witness ==
    /\ pc = "merged"
    /\ abortSeen
    /\ \E i, j \in 1..Len(variants) :
            /\ variants[i].status = "error" /\ variants[i].signalFired
            /\ variants[j].status = "ok" /\ variants[j].signalFired
            /\ variants[j].returned # <<>>
            /\ searchResults = variants[j].returned

\* a run whose search calls were made and whose merged list came out empty
MergedEmpty == pc = "done" /\ Count("search") > 0 /\ searchResults = <<>>

NoRefinementCalls ==
    \A i \in 1..Len(calls) :
        calls[i].op \notin {"rerank", "compress", "grade", "buildSources", "generateAnswer"}

\* C12: in each strategy a run whose merged retrieval result is empty makes no
\* rerank, compress, grade, buildSources or generateAnswer call and resolves with the
\* fallback answer made from the raw query text.
C12_EmptyRetrievalFallsBackOnQuery ==
    MergedEmpty =>
        /\ NoRefinementCalls
        /\ outcome.kind = "resolved"
        /\ Count("fallback") = 1
        /\ CallsOf("fallback")[1].arg = QueryFallback(input.query)

\* C12 (amended): the same, except that a PageQueryStrategy run makes the fallback
\* answer from the fixed text about the requested page rather than from the query.
C12_EmptyRetrievalFallsBack_Amended ==
    MergedEmpty =>
        /\ NoRefinementCalls
        /\ outcome.kind = "resolved"
        /\ outcome.response.type = "fallback"
        /\ Count("fallback") = 1
        /\ CallsOf("fallback")[1].arg =
                (IF input.strategy = "PageQueryStrategy" THEN NoPageContent
                 ELSE QueryFallback(input.query))

C12_Witness ==
    /\ MergedEmpty
    /\ input.strategy = "PageQueryStrategy"
    /\ input.query = PaddedQuery
    /\ outcome.kind = "resolved"
    /\ Count("fallback") = 1

RefiningRun == input.strategy \in {"StandardVectorSearch", "ExpandedSearch"}

\* the compressContext call failed and every rerankResults call that settled succeeded
CompressionFailedRerankOk ==
    /\ compressSt.status = "failed"
    /\ Len(rerankSt) = 2
    /\ rerankSt[2].status = "ok"
    /\ rerankSt[1].status # "failed"

\* C13: in a StandardVectorSearch or ExpandedSearch run whose compression fails and
\* whose reranking succeeds, the context text handed to generateAnswer is the
\* contents of the reranked chunks joined in reranked order.
C13_CompressionFailureKeepsRerankedOrder ==
    (RefiningRun /\ CompressionFailedRerankOk /\ Count("generateAnswer") > 0) =>
        CallsOf("generateAnswer")[1].contextText = JoinContents(rerankedResults)

\* record r is a graded record, marked relevant, of search result x
IsRelevantGradeOf(r, x) ==
    /\ "isRelevant" \in DOMAIN r
    /\ r.isRelevant = TRUE
    /\ r.chunkId = x.chunkId
    /\ r.documentId = x.documentId

\* C14: when grading fails in a StandardVectorSearch or ExpandedSearch run, the
\* buildSources call that follows receives as relevant documents the reranked
\* results in reranked order, each a graded record with isRelevant = true.
C14_GradingFailureMarksAllRelevant ==
    [][(RefiningRun /\ \E e \in SwallowedErrors : GradeRejects(e)) =>
            LET call == calls'[Len(calls')]
            IN  /\ call.op = "buildSources"
                /\ Len(call.relevant) = Len(rerankedResults')
                /\ \A i \in 1..Len(call.relevant) :
                        IsRelevantGradeOf(call.relevant[i], rerankedResults'[i])]_vars

\* C15: a StandardVectorSearch or ExpandedSearch run with a merged result and no
\* caller cancellation gets to generateAnswer whichever of the rerank, compress and
\* grade calls fail: it never settles before generateAnswer was called, unless
\* buildSources, which comes after those three, was called and failed.
C15_RefinementFailureNeverFatal ==
    (pc = "done" /\ RefiningRun /\ searchResults # <<>> /\ ~CallerSignalAborted) =>
        (Count("generateAnswer") > 0 \/ Count("buildSources") > 0)

\* C16: a FastVectorSearch run makes no rerank, compress or grade call; buildSources
\* receives one synthesized record per merged result, in merged order, each with
\* confidence 0.8 and isRelevant true; generateAnswer receives the merged contents
\* joined in that order.
C16_FastPathSynthesizesGrades ==
    input.strategy = "FastVectorSearch" =>
        /\ \A i \in 1..Len(calls) : calls[i].op \notin {"rerank", "compress", "grade"}
        /\ \A i \in 1..Len(calls) :
                calls[i].op = "buildSources" =>
                    /\ Len(calls[i].relevant) = Len(searchResults)
                    /\ calls[i].raw = searchResults
                    /\ \A k \in 1..Len(searchResults) :
                            /\ IsRelevantGradeOf(calls[i].relevant[k], searchResults[k])
                            /\ calls[i].relevant[k].confidence = 80
                            /\ calls[i].relevant[k].originalContent
                                    = searchResults[k].content
        /\ \A i \in 1..Len(calls) :
                calls[i].op = "generateAnswer" =>
                    calls[i].contextText = JoinContents(searchResults)

C16_Witness ==
    /\ input.strategy = "FastVectorSearch"
    /\ pc = "done"
    /\ Len(searchResults) = 2
    /\ Count("buildSources") = 1
    /\ Count("generateAnswer") = 1
    /\ outcome.kind = "resolved"

\* the step in which error e leaves the pipeline and enters processQuery's catch
ReachesHandler(e) ==
    \/ BuildSourcesRejects(e)
    \/ ~Refining /\ GenerateRejects(e)
    \/ RerankAgainFailed /\ rerankSt[2].error = e

\* named AbortError, or 'aborted' in its message, or the caller's signal aborted
CancellationOriginated(e) ==
    e.name = "AbortError" \/ Contains(e.message, "aborted") \/ CallerSignalAborted

\* C17: an error that enters processQuery's catch and is cancellation-originated is
\* thrown on as it is, and no fallback answer is generated for it.
C17_CancellationRethrown ==
    [][\A e \in Errors :
            (ReachesHandler(e) /\ CancellationOriginated(e)) =>
                (outcome' = Rejected(e) /\ calls' = calls)]_vars

\* C18: an error named TimeoutError that enters processQuery's catch while the
\* caller has not cancelled gives the fixed "took too long" fallback answer, whatever
\* its message is.
C18_TimeoutGivesTookTooLong ==
    [][\A e \in Errors :
            (ReachesHandler(e) /\ e.name = "TimeoutError" /\ ~CallerSignalAborted) =>
                /\ outcome'.kind = "resolved"
                /\ calls' = Append(calls, FallbackCall(TookTooLong))]_vars

\* C19: an error that enters processQuery's catch and is neither
\* cancellation-originated nor named TimeoutError gives the fallback answer made
\* from the raw query, by exactly one call of the fallback generator.
C19_OtherErrorsFallBackOnQuery ==
    [][\A e \in Errors :
            (ReachesHandler(e) /\ ~CancellationOriginated(e) /\ e.name # "TimeoutError")
                => /\ outcome'.kind = "resolved"
                   /\ outcome'.response.type = "fallback"
                   /\ calls' = Append(calls, FallbackCall(QueryFallback(input.query)))]_vars

C19_Witness ==
    /\ pc = "done"
    /\ ~CallerSignalAborted
    /\ input.query = BaseQuery
    /\ Count("buildSources") = 1
    /\ Count("generateAnswer") = 0
    /\ Count("fallback") = 1
    /\ calls[Len(calls)] = FallbackCall(QueryFallback(input.query))
    /\ outcome.kind = "resolved"

IsPrefix(s, t) == Len(s) <= Len(t) /\ \A i \in 1..Len(s) : s[i] = t[i]

\* the collaborator calls of a StandardVectorSearch run, after its search calls
StandardStageOrders ==
    {<<"fallback">>,
     <<"rerank", "compress", "grade", "buildSources", "generateAnswer", "fallback">>,
     <<"rerank", "compress", "grade", "buildSources", "fallback">>,
     <<"rerank", "compress", "rerank", "grade", "buildSources", "generateAnswer",
       "fallback">>,
     <<"rerank", "compress", "rerank", "grade", "buildSources", "fallback">>,
     <<"rerank", "compress", "rerank", "fallback">>}

\* the search calls executeStandardPipeline makes for the run's input
StandardSearchCalls ==
    LET qs == buildQueriesForStrategy(input.query, input.queryExtraction,
                                      "StandardVectorSearch")
    IN  [i \in 1..Len(qs) |->
            SearchCall(qs[i], input.indexedDocuments, input.queryExtraction,
                       PipelineSignal(input.hasAbortSignal), "STANDARD")]

OpOf(c) == c.op

\* the calls made so far are the search calls of the standard pipeline followed by
\* a beginning of one of its stage orders
CallsAsStandard ==
    /\ Len(calls) >= Len(StandardSearchCalls)
    /\ SubSeq(calls, 1, Len(StandardSearchCalls)) = StandardSearchCalls
    /\ \E order \in StandardStageOrders :
            IsPrefix(MapSeq(OpOf, SubSeq(calls, Len(StandardSearchCalls) + 1, Len(calls))),
                     order)

\* for every list of rewritten queries, a strategy outside the four tags gets the
\* variants and the search configuration of StandardVectorSearch, at most 15 variants
UnknownBuildsAsStandard ==
    \A in \in QueryTestInputs :
        LET unknown == SearchQueriesOf(PipelineOf(UnknownStrategy), in.query,
                                       in.queryExtraction)
        IN  /\ unknown = buildQueriesForStrategy(in.query, in.queryExtraction,
                                                 "StandardVectorSearch")
            /\ Len(unknown) <= 15
            /\ getSearchConfig(PipelineOf(UnknownStrategy)) = "STANDARD"

\* C20: a strategy value outside the four known tags runs the StandardVectorSearch
\* pipeline: the same variants (at most 15), the same search configuration, and the
\* same stages, so its collaborator calls are those of a StandardVectorSearch run.
C20_UnknownStrategyRunsStandard ==
    /\ UnknownBuildsAsStandard
    /\ (input.strategy \in {UnknownStrategy, "StandardVectorSearch"}
            /\ pc # "idle" /\ ~isDisposed /\ ~HasInvalidPage) => CallsAsStandard

C20_Witness ==
    /\ input.strategy = UnknownStrategy
    /\ pc = "done"
    /\ Len(StandardSearchCalls) = 2
    /\ MapSeq(OpOf, calls) = <<"search", "search", "rerank", "compress", "rerank",
                               "grade", "buildSources", "generateAnswer">>
    /\ outcome.kind = "resolved"

TrackerCount(method) == Len(SelectSeq(trackerCalls, LAMBDA t : t = method))

\* C21: a call with a metadata tracker on a live orchestrator calls startTotal once,
\* first, and endTotal once, last and before it settles, on every exit path; while
\* the call is running endTotal has not been called.
C21_TotalTimerStartedAndEndedOnce ==
    (input.hasTracker /\ pc # "idle" /\ ~isDisposed) =>
        /\ TrackerCount("startTotal") = 1
        /\ trackerCalls[1] = "startTotal"
        /\ IF pc = "done"
           THEN /\ TrackerCount("endTotal") = 1
                /\ trackerCalls[Len(trackerCalls)] = "endTotal"
                /\ outcome.kind # "pending"
           ELSE /\ TrackerCount("endTotal") = 0
                /\ outcome.kind = "pending"

\* the re-thrown cancellation among the exit paths
C21_Witness ==
    /\ input.hasTracker /\ pc = "done" /\ ~isDisposed
    /\ outcome.kind = "rejected"
    /\ CallerSignalAborted
    /\ TrackerCount("startTotal") = 1
    /\ TrackerCount("endTotal") = 1

AllowListedIds == [i \in 1..Len(input.indexedDocuments) |-> input.indexedDocuments[i].documentId]

\* C22: every search call receives a metadata filter that holds the dataroom id and
\* the ids of all allow-listed documents, with and without extracted page numbers.
C22_FilterScopesEverySearch ==
    \A i \in 1..Len(calls) :
        calls[i].op = "search" =>
            /\ calls[i].filter.present
            /\ calls[i].filter.dataroomId = DataroomId
            /\ calls[i].filter.documentIds = AllowListedIds

\* C22 (amended): every search call receives the dataroom id and the ids of all
\* allow-listed documents as arguments; the metadata filter, which repeats them, is
\* passed only when page numbers were extracted, and no filter is passed otherwise.
C22_ScopeArgumentsOnEverySearch_Amended ==
    \A i \in 1..Len(calls) :
        calls[i].op = "search" =>
            /\ calls[i].dataroomId = DataroomId
            /\ calls[i].docIds = AllowListedIds
            /\ IF Len(RequestedPages) > 0
               THEN /\ calls[i].filter.present
                    /\ calls[i].filter.dataroomId = DataroomId
                    /\ calls[i].filter.documentIds = AllowListedIds
               ELSE ~calls[i].filter.present

C22_Witness ==
    /\ Count("search") = 2
    /\ Len(AllowListedIds) = 2
    /\ Len(RequestedPages) = 0
    /\ input.strategy = "ExpandedSearch"
    /\ ~calls[1].filter.present

\* C23: a search call carries a page restriction exactly when the query extraction
\* has a non-empty page-number list, and the page ranges are then those page numbers.
C23_PageRestrictionOnlyForPageQueries ==
    \A i \in 1..Len(calls) :
        calls[i].op = "search" =>
            /\ (calls[i].filter.present /\ calls[i].filter.hasPageRanges)
                    <=> Len(RequestedPages) > 0
            /\ Len(RequestedPages) = 0 => calls[i].filter.pageRanges = <<>>
            /\ Len(RequestedPages) > 0 =>
                    calls[i].filter.pageRanges
                        = [k \in 1..Len(RequestedPages) |-> numToString(RequestedPages[k])]

C23_Witness ==
    /\ Count("search") = 1
    /\ Len(RequestedPages) = 2
    /\ calls[1].filter.pageRanges = << <<"1">>, <<"1">> >>
    /\ pc = "done"
    /\ outcome.kind = "resolved"

(***************************************************************************)
(* C24: in each of generateRAGResponse, generateFallbackResponse and       *)
(* generateSimpleResponse, addMessage is not invoked before the answer     *)
(* stream has finished, is invoked at most once per call, and is given the *)
(* final text of the stream (as an assistant message of the call's         *)
(* session).                                                               *)
(***************************************************************************)
C24_PersistsOnceAfterStreamEnds ==
    /\ Len(storageCalls) <= 1
    /\ storageCalls # <<>> =>
            /\ streamState = "finished"
            /\ storageCalls[1].content = streamed
            /\ storageCalls[1].role = "assistant"
            /\ storageCalls[1].sessionId = genArgs.chatSessionId

\* a fallback answer of full length was streamed and then handed to addMessage
C24_Witness ==
    /\ genArgs.entry = "generateFallbackResponse"
    /\ Len(streamed) = MaxStreamLen
    /\ Len(storageCalls) = 1
    /\ genPc = "storing"

\* a persistence step of the current call failed
PersistenceFailureLogged ==
    \E i \in 1..Len(logged) : logged[i].source = "storeAssistantMessageWithContext"

(***************************************************************************)
(* C25: a failure while persisting the assistant message (setTokenUsage or *)
(* getMetadata throwing, addMessage rejecting) never makes the entry point *)
(* reject and never changes the response already returned or the text of   *)
(* its stream; the onFinish callback always completes without error.       *)
(***************************************************************************)
C25_PersistenceFailureSwallowed ==
    /\ [](finishResult # "threw")
    /\ [](PersistenceFailureLogged =>
            /\ genOutcome = Resolved(StreamResponse(genArgs.entry))
            /\ finishResult = "completed")
    /\ [](genOutcome.kind = "rejected" => streamState = "none")
    /\ [][(genPc \in {"streaming", "storing"} /\ genPc' = "closed") =>
            /\ genOutcome' = genOutcome
            /\ streamed' = streamed]_vars

\* addMessage rejected after a RAG answer was streamed, and the callback is over
C25_Witness ==
    /\ genArgs.entry = "generateRAGResponse"
    /\ PersistenceFailureLogged
    /\ Len(storageCalls) = 1
    /\ Len(streamed) > 0
    /\ finishResult = "completed"

\* the order in which a StandardVectorSearch run without failure starts its calls
StandardCallOrder ==
    [i \in 1..Len(StandardSearchCalls) |-> "search"]
        \o <<"rerank", "compress", "grade", "buildSources", "generateAnswer">>

StandardRunWithoutPages ==
    input.strategy = "StandardVectorSearch" /\ RequestedPages = <<>> /\ pc # "idle"

(***************************************************************************)
(* C26: a StandardVectorSearch run without page numbers that retrieved     *)
(* something and met no refinement failure starts its calls in the order   *)
(* search, rerank, compress, grade, buildSources, generateAnswer, and has  *)
(* made all of them when it returns an answer.  In every run of every      *)
(* strategy a buildSources call comes after the end of retrieval (every    *)
(* search call was made before it and no variant is still awaited), and a  *)
(* generateAnswer call comes after buildSources returned: it is given the  *)
(* sources that buildSources computed for an earlier call of the run.      *)
(***************************************************************************)
C26_StagesInOrder ==
    /\ (StandardRunWithoutPages /\ Count("rerank") <= 1 /\ Count("fallback") = 0) =>
            /\ IsPrefix(MapSeq(OpOf, calls), StandardCallOrder)
            /\ (outcome.kind = "resolved" /\ outcome.response = Answer) =>
                    MapSeq(OpOf, calls) = StandardCallOrder
    /\ \A i \in 1..Len(calls) :
            calls[i].op = "buildSources" =>
                /\ pc \in {"sources", "generating", "done"}
                /\ variants = <<>>
                /\ \A j \in 1..Len(calls) : calls[j].op = "search" => j < i
    /\ \A i \in 1..Len(calls) :
            calls[i].op = "generateAnswer" =>
                /\ pc \in {"generating", "done"}
                /\ \E j \in 1..(i - 1) :
                        /\ calls[j].op = "buildSources"
                        /\ calls[i].sources =
                                buildSources(calls[j].relevant, calls[j].raw,
                                             calls[j].indexedDocuments)

\* a standard run in which every call succeeded has returned its answer
C26_Witness ==
    /\ StandardRunWithoutPages
    /\ pc = "done"
    /\ outcome = Resolved(Answer)
    /\ Len(rerankSt) = 1 /\ rerankSt[1].status = "ok"
    /\ compressSt.status = "ok"
    /\ Len(sources) > 0
    /\ MapSeq(OpOf, calls) = <<"search", "rerank", "compress", "grade",
                               "buildSources", "generateAnswer">>

\* a rerank call or the compression call of the run has not settled yet
RefinementInFlight ==
    \/ compressSt.status = "inflight"
    \/ \E k \in 1..Len(rerankSt) : rerankSt[k].status = "inflight"

(***************************************************************************)
(* C27: in a StandardVectorSearch or ExpandedSearch run the grading call   *)
(* is never in progress while a rerank call or the compression call of the *)
(* same run is still in flight.  (No rerank or compression call is started *)
(* after grading began, so one in flight during grading was in flight when *)
(* grading started.)                                                       *)
(***************************************************************************)
C27_GradingAfterRefinementSettled ==
    (Refining /\ pc = "grading") => ~RefinementInFlight

StageOps == {"rerank", "compress", "grade", "buildSources", "generateAnswer"}

\* what the outcome of a variant gives to the merge
OutcomeResults(v) == IF v.status = "ok" THEN v.returned ELSE <<>>

(***************************************************************************)
(* C28: while a query variant of the run has no outcome yet, no rerank,    *)
(* compress, grade, buildSources or generateAnswer call has been started;  *)
(* when retrieval returns every variant has an outcome (a result, a        *)
(* failure or a timeout) and the merged list is the deduplicated           *)
(* concatenation, in variant order, of what the outcomes carry; the rerank *)
(* and compression calls are given that list.                              *)
(***************************************************************************)
C28_StagesWaitForEveryVariant ==
    /\ (pc = "search" \/ \E i \in 1..Len(variants) : variants[i].status = "pending") =>
            \A k \in 1..Len(calls) : calls[k].op \notin StageOps
    /\ pc = "merged" =>
            /\ \A i \in 1..Len(variants) :
                    variants[i].status \in {"ok", "error", "timeout"}
            /\ searchResults =
                    removeDuplicateResults(Flatten(MapSeq(OutcomeResults, variants)))
            /\ \A k \in 1..Len(calls) : calls[k].op \notin StageOps
    /\ \A k \in 1..Len(calls) :
            /\ calls[k].op \in StageOps => pc \notin {"idle", "search", "merged"}
            /\ calls[k].op \in {"rerank", "compress"} => calls[k].results = searchResults

\* every variant of a two-variant run has its outcome and the refinement has started
C28_Witness ==
    /\ pc = "refine"
    /\ Count("search") = 2
    /\ Count("rerank") = 1
    /\ Len(searchResults) > 0

(***************************************************************************)
(* C29: when the per-query timeout of a variant wins, the search call of   *)
(* that variant stays in flight and the signal it was given is not         *)
(* aborted; the call can outlive processQuery; and when it settles, with   *)
(* whatever result, nothing of the run changes: not the variant outcomes,  *)
(* not the merged results, not any later stage, not the response.          *)
(***************************************************************************)
C29_TimedOutSearchRunsOnAndIsDiscarded ==
    /\ [][\A i \in 1..Len(variants) :
            (pc = "search" /\ pc' = "search" /\ variants[i].status = "pending"
                /\ variants'[i].status = "timeout") =>
                    /\ i \in inflightSearch'
                    /\ variants'[i].contrib = <<>>
                    /\ UNCHANGED <<callerAborted, timeoutElapsed>>]_vars
    /\ [][(inflightSearch' # inflightSearch /\ inflightSearch' \subseteq inflightSearch
                /\ pc' # "idle") =>
            UNCHANGED <<pc, variants, stageVars, calls, trackerCalls, outcome>>]_vars
    /\ [](pc = "merged" =>
            \A m \in 1..Len(searchResults) :
                \E i \in 1..Len(variants) :
                    /\ variants[i].status = "ok"
                    /\ Contains(variants[i].returned, searchResults[m]))

\* processQuery has returned and a search call that lost its race is still running
C29_Witness ==
    /\ pc = "done"
    /\ outcome.kind = "resolved"
    /\ inflightSearch # {}

QueryOf(c) == c.query

\* the query-variant list of the run, as its search calls show it
BuiltVariants == MapSeq(QueryOf, CallsOf("search"))

\* the strings the caller supplied, trimmed: the original query, the rewritten
\* queries in their order, the hypothetical answer
SuppliedOrder ==
    MapSeq(Trim,
           <<input.query>>
               \o SelectSeq(input.queryExtraction.rewrittenQueries,
                            LAMBDA q : q # Undefined)
               \o <<input.queryExtraction.hydeAnswer>>)

FirstPosition(s, x) == CHOOSE i \in 1..Len(s) : s[i] = x /\ \A j \in 1..(i - 1) : s[j] # x

(***************************************************************************)
(* C30: the query-variant list of a FastVectorSearch, StandardVectorSearch *)
(* or ExpandedSearch run has no empty string, no string that begins or     *)
(* ends with whitespace and no string twice; each element is one of the    *)
(* supplied strings, trimmed, and the elements stand in the order in which *)
(* they first occur in the list original query, rewritten queries as       *)
(* supplied, hypothetical answer.                                          *)
(***************************************************************************)
C30_VariantsTrimmedDistinctOrdered ==
    (pc = "search"
        /\ input.strategy \in {"FastVectorSearch", "StandardVectorSearch",
                               "ExpandedSearch"}) =>
        /\ \A i \in 1..Len(BuiltVariants) :
                /\ BuiltVariants[i] # <<>>
                /\ Head(BuiltVariants[i]) # WS
                /\ BuiltVariants[i][Len(BuiltVariants[i])] # WS
                /\ Contains(SuppliedOrder, BuiltVariants[i])
        /\ \A i, j \in 1..Len(BuiltVariants) :
                i < j =>
                    /\ BuiltVariants[i] # BuiltVariants[j]
                    /\ FirstPosition(SuppliedOrder, BuiltVariants[i])
                            < FirstPosition(SuppliedOrder, BuiltVariants[j])

\* a padded original, a rewritten query equal to it after trim(), a padded
\* rewritten query and a padded hypothetical answer give three variants
C30_Witness ==
    /\ pc = "search"
    /\ input.strategy = "ExpandedSearch"
    /\ input.query = PaddedQuery
    /\ input.queryExtraction.rewrittenQueries = << <<"q">>, <<WS, "r">> >>
    /\ input.queryExtraction.hydeAnswer = <<"h", WS>>
    /\ BuiltVariants = << <<"q">>, <<"r">>, <<"h">> >>

(***************************************************************************)
(* C31: for every input of the query-variant construction, an empty or     *)
(* whitespace-only query with rewritten queries included, the variant list *)
(* is non-empty and begins with the original query (as given, or trimmed). *)
(***************************************************************************)
C31_OriginalQueryAlwaysFirst ==
    (pc = "search"
        /\ input.strategy \in {"FastVectorSearch", "StandardVectorSearch",
                               "ExpandedSearch"}) =>
        /\ BuiltVariants # <<>>
        /\ BuiltVariants[1] \in {input.query, Trim(input.query)}

\* the strings of the original query and of the rewritten queries, trimmed
SuppliedWithoutHyde ==
    MapSeq(Trim,
           <<input.query>>
               \o SelectSeq(input.queryExtraction.rewrittenQueries,
                            LAMBDA q : q # Undefined))

\* the condition under which the hypothetical answer is a variant
HydeRequired ==
    /\ input.strategy = "ExpandedSearch"
    /\ input.queryExtraction.requiresHyde
    /\ input.queryExtraction.hydeAnswer # <<>>

(***************************************************************************)
(* C32: unless the run is an ExpandedSearch run whose query analysis has   *)
(* requiresHyde set and a non-empty hypothetical answer, every query       *)
(* variant is the original query or one of the rewritten queries, and a    *)
(* PageQueryStrategy run searches for the original query alone; in an      *)
(* ExpandedSearch run with the flag and an answer that is not blank, the   *)
(* hypothetical answer is among the variants.                              *)
(***************************************************************************)
C32_HydeOnlyWhenExpandedAndRequired ==
    pc = "search" =>
        /\ ~HydeRequired =>
                \A i \in 1..Len(BuiltVariants) :
                    Contains(SuppliedWithoutHyde \o <<input.query>>, BuiltVariants[i])
        /\ input.strategy = "PageQueryStrategy" => BuiltVariants = <<input.query>>
        /\ (HydeRequired /\ Trim(input.queryExtraction.hydeAnswer) # <<>>) =>
                Contains(BuiltVariants, Trim(input.queryExtraction.hydeAnswer))

\* a StandardVectorSearch run whose analysis asks for the hypothetical answer
\* searches without it
C32_Witness ==
    /\ pc = "search"
    /\ input.strategy = "StandardVectorSearch"
    /\ input.queryExtraction.requiresHyde
    /\ input.queryExtraction.hydeAnswer = <<"h", WS>>
    /\ input.queryExtraction.rewrittenQueries = << <<WS, "r">> >>
    /\ BuiltVariants = << <<"q">>, <<"r">> >>

\* position of the first call of a tracker method (0: never called)
TrackerIndex(method) ==
    IF TrackerCount(method) = 0 THEN 0
    ELSE CHOOSE i \in 1..Len(trackerCalls) :
            trackerCalls[i] = method /\ \A j \in 1..(i - 1) : trackerCalls[j] # method

\* the run ended in a fallback answer that a failure caused
FailureFallback ==
    /\ outcome.kind = "resolved"
    /\ outcome.response.type = "fallback"
    /\ ~MergedEmpty

(***************************************************************************)
(* C33: a run with a metadata tracker on a live orchestrator that ends in  *)
(* a rejection or in a fallback answer caused by a failure has called      *)
(* setError exactly once, before endTotal; a run that ends with a grounded *)
(* answer has not called setError.                                         *)
(***************************************************************************)
C33_ErrorRecordedOnEveryFailure ==
    (input.hasTracker /\ pc = "done" /\ ~isDisposed) =>
        /\ (outcome.kind = "rejected" \/ FailureFallback) =>
                /\ TrackerCount("setError") = 1
                /\ TrackerIndex("setError") < TrackerIndex("endTotal")
        /\ (outcome.kind = "resolved" /\ outcome.response.type = "answer") =>
                TrackerCount("setError") = 0

(***************************************************************************)
(* C34: a PageQueryStrategy run makes no rerank, compress or grade call;   *)
(* its buildSources call receives one synthesized record per retrieved     *)
(* chunk, in retrieval order, with confidence 0.9 and isRelevant true, and *)
(* the retrieved chunks themselves; its generateAnswer call receives the   *)
(* page-number list of the query extraction, the empty list when there is  *)
(* none.                                                                   *)
(***************************************************************************)
C34_PageRunSkipsRefinement ==
    input.strategy = "PageQueryStrategy" =>
        /\ \A i \in 1..Len(calls) : calls[i].op \notin {"rerank", "compress", "grade"}
        /\ \A i \in 1..Len(calls) :
                calls[i].op = "buildSources" =>
                    /\ Len(searchResults) > 0
                    /\ Len(calls[i].relevant) = Len(searchResults)
                    /\ calls[i].raw = searchResults
                    /\ \A k \in 1..Len(searchResults) :
                            /\ IsRelevantGradeOf(calls[i].relevant[k], searchResults[k])
                            /\ calls[i].relevant[k].confidence = 90
        /\ \A i \in 1..Len(calls) :
                calls[i].op = "generateAnswer" =>
                    /\ calls[i].pageNumbers.defined
                    /\ calls[i].pageNumbers.pages = RequestedPages

\* a page run for page 1 over two retrieved chunks has returned its answer
C34_Witness ==
    /\ input.strategy = "PageQueryStrategy"
    /\ pc = "done"
    /\ RequestedPages = <<1>>
    /\ Len(searchResults) = 2
    /\ Count("buildSources") = 1
    /\ Count("generateAnswer") = 1
    /\ outcome = Resolved(Answer)

\* p is a page of the longest of the run's documents
WithinPageCount(p) ==
    /\ Len(input.indexedDocuments) > 0
    /\ p \in 1..MaxPageCount(input.indexedDocuments)

PastRefineStep ==
    /\ Refining
    /\ Len(rerankSt) >= 1
    /\ pc \in {"rerank2", "grading", "sources", "generating", "done"}

\* Promise.all([rerank, compress]) rejected
RefineStepRejected == rerankSt[1].status = "failed" \/ compressSt.status = "failed"

\* the reranker is called once when the concurrent step succeeds and twice when it
\* rejects; after a rejection the context text is the merged results' contents
\* joined in retrieval order
RerankCountAndContext ==
    /\ Count("rerank") <= 2
    /\ ~Refining => Count("rerank") = 0
    /\ PastRefineStep =>
            /\ Count("rerank") = IF RefineStepRejected THEN 2 ELSE 1
            /\ (RefineStepRejected /\ rerankSt[2].status = "ok" /\ pc # "rerank2") =>
                    /\ compressedContext = JoinContents(searchResults)
                    /\ \A i \in 1..Len(calls) :
                            calls[i].op = "generateAnswer" =>
                                calls[i].contextText = JoinContents(searchResults)

\* the second rerank call of the run failed and its error has been handled
SecondRerankFailed ==
    /\ PastRefineStep
    /\ Len(rerankSt) = 2
    /\ rerankSt[2].status = "failed"
    /\ pc = "done"

(***************************************************************************)
(* C37: in a StandardVectorSearch or ExpandedSearch run the reranker is    *)
(* called once when the concurrent rerank/compress step succeeds and twice *)
(* when it rejects; after a rejection the context text is the merged       *)
(* results' contents joined in retrieval order; a failure of the second    *)
(* rerank call ends the run in the fallback answer made from the raw       *)
(* query.                                                                  *)
(***************************************************************************)
C37_SecondRerankFailureFallsBackOnQuery ==
    /\ RerankCountAndContext
    /\ (PastRefineStep /\ Len(rerankSt) = 2 /\ rerankSt[2].status = "failed") =>
            pc \in {"rerank2", "done"}
    /\ SecondRerankFailed =>
            outcome = Resolved(createFallbackResponse(QueryFallback(input.query)))

(***************************************************************************)
(* C37 (amended): the same, except that the failure of the second rerank   *)
(* call is classified by processQuery's handler: an Error named AbortError *)
(* or with 'aborted' in its message, or any Error once the caller's signal *)
(* has fired, is thrown on; another Error named TimeoutError gives the     *)
(* "took too long" fallback; every other failure gives the fallback made   *)
(* from the raw query.  No grading, source-building or generation call is  *)
(* made after that failure.                                                *)
(***************************************************************************)
C37_SecondRerankFailureClassified_Amended ==
    /\ RerankCountAndContext
    /\ (PastRefineStep /\ Len(rerankSt) = 2 /\ rerankSt[2].status = "failed") =>
            pc \in {"rerank2", "done"}
    /\ SecondRerankFailed =>
            LET e == rerankSt[2].error IN
            /\ \A i \in 1..Len(calls) :
                    calls[i].op \notin {"grade", "buildSources", "generateAnswer"}
            /\ IF e.isError /\ (e.name = "AbortError" \/ Contains(e.message, "aborted")
                                 \/ CallerSignalAborted)
               THEN outcome = Rejected(e) /\ Count("fallback") = 0
               ELSE IF e.isError /\ e.name = "TimeoutError"
               THEN outcome = Resolved(createFallbackResponse(TookTooLong))
               ELSE outcome = Resolved(createFallbackResponse(QueryFallback(input.query)))

\* the reranker failed in the concurrent step while compression succeeded, the
\* second rerank call reordered two chunks, and the answer was generated
C37_Witness ==
    /\ PastRefineStep
    /\ pc = "done"
    /\ rerankSt[1].status = "failed"
    /\ compressSt.status = "ok"
    /\ Len(searchResults) = 2
    /\ rerankSt[2].status = "ok"
    /\ rerankedResults = Reverse(searchResults)
    /\ Count("rerank") = 2
    /\ Count("generateAnswer") = 1
    /\ outcome = Resolved(Answer)

\* what processQuery's handler makes of error e: the outcome and the tracker calls
HandledAtTopLevel(e) ==
    /\ trackerCalls' = trackerCalls \o Tracked(<<"setError", "endTotal">>)
    /\ IF e.isError /\ (e.name = "AbortError" \/ Contains(e.message, "aborted")
                         \/ CallerSignalAborted)
       THEN outcome' = Rejected(e) /\ calls' = calls
       ELSE IF e.isError /\ e.name = "TimeoutError"
       THEN /\ outcome' = Resolved(createFallbackResponse(TookTooLong))
            /\ calls' = Append(calls, FallbackCall(TookTooLong))
       ELSE /\ outcome' = Resolved(createFallbackResponse(QueryFallback(input.query)))
            /\ calls' = Append(calls, FallbackCall(QueryFallback(input.query)))

(***************************************************************************)
(* C38: when generateAnswer fails in a StandardVectorSearch or             *)
(* ExpandedSearch run, whatever the error (an abort error included), the   *)
(* run returns the fallback answer made from the raw query and the error   *)
(* does not reach processQuery's handler (no setError, the call ends as a  *)
(* success); when it fails in a FastVectorSearch or PageQueryStrategy run, *)
(* the error reaches the handler, which records and classifies it.         *)
(***************************************************************************)
C38_GenerationFailureHandledInPipeline ==
    [][\A e \in Errors :
            GenerateRejects(e) =>
                IF input.strategy \notin {"FastVectorSearch", "PageQueryStrategy"}
                THEN /\ outcome' = Resolved(createFallbackResponse(QueryFallback(input.query)))
                     /\ calls' = Append(calls, FallbackCall(QueryFallback(input.query)))
                     /\ trackerCalls' = trackerCalls \o Tracked(<<"endTotal">>)
                ELSE HandledAtTopLevel(e)]_vars

\* generateAnswer failed with the caller's abort in a refining run, and the run
\* resolved with the fallback answer
C38_Witness ==
    /\ Refining
    /\ pc = "done"
    /\ abortSeen
    /\ Count("generateAnswer") = 1
    /\ Count("fallback") = 1
    /\ outcome = Resolved(createFallbackResponse(QueryFallback(input.query)))

(***************************************************************************)
(* C39: a run calls generateAnswer at most once; when the call succeeds    *)
(* its response is what processQuery returns and the run generates no      *)
(* fallback answer; a run that returns a fallback answer has made exactly  *)
(* one fallback call and had no successful generateAnswer call.            *)
(***************************************************************************)
C39_OneAnswerOrOneFallback ==
    /\ [](Count("generateAnswer") <= 1)
    /\ [][GenerateResolves =>
            /\ outcome' = Resolved(Answer)
            /\ calls' = calls
            /\ Count("fallback") = 0
            /\ pc' = "done"]_vars
    /\ []((pc = "done" /\ outcome.kind = "resolved") =>
            IF outcome.response.type = "answer"
            THEN /\ Count("generateAnswer") = 1
                 /\ Count("fallback") = 0
                 /\ outcome.response.sources = CallsOf("generateAnswer")[1].sources
                 /\ outcome.response.contextText = CallsOf("generateAnswer")[1].contextText
            ELSE /\ outcome.response.type = "fallback"
                 /\ Count("fallback") = 1)
    /\ [][(pc = "generating" /\ outcome'.kind = "resolved"
                /\ outcome'.response.type = "fallback") => ~GenerateResolves]_vars

\* the answer of the run's only generateAnswer call has been returned
C39_Witness ==
    /\ pc = "done"
    /\ Count("generateAnswer") = 1
    /\ Count("fallback") = 0
    /\ outcome = Resolved(Answer)
    /\ Len(outcome.response.sources) > 0

\* storeAssistantMessageWithContext has been called for the finished stream
PersistenceAttempted == genTrackerCalls # <<>> \/ storageCalls # <<>>

MetadataSnapshotTaken ==
    \E j \in 1..Len(genTrackerCalls) : genTrackerCalls[j] = GetMetadataCall

\* the call of the store appended to the tracker's calls in this step
StoreCalls == SubSeq(genTrackerCalls', Len(genTrackerCalls) + 1, Len(genTrackerCalls'))

====
